---- MODULE Spec2Model ----
(***************************************************************************)
(* Photo watermark tool: font catalog, font resolution, style simulation,  *)
(* watermark layer construction, placement and compositing.                *)
(*                                                                         *)
(* Each part of the program has its own specification:                     *)
(*   SpecMapper   threads taking the font catalog from get_font_mapper()   *)
(*   SpecFont     font resolution, font loading and the text layer         *)
(*   SpecPlace    placement and compositing of a watermark layer           *)
(*   SpecImage    compositing and the renderer of photo_watermark          *)
(*   SpecResolve  the methods of the font catalog                          *)
(*   SpecDraw     drawing a text with simulated styles                     *)
(*   SpecBatch    batch runs over a list of images                         *)
(*   SpecExport   the batch export and its cancellation                    *)
(*   SpecRotate   a render call with a rotation                            *)
(*   SpecPaint    the passes that paint a text                             *)
(*   SpecConfig   the construction of a WatermarkConfig                    *)
(*   SpecSingle   ImageProcessor.process_single_image                      *)
(*   SpecFiles    the list of the FileManager                              *)
(*   SpecWindow   the current image of the main window                     *)
(*   SpecSave     the files written by ImageExporter.export_image          *)
(***************************************************************************)
EXTENDS Integers, Sequences, FiniteSets, TLC

VARIABLES
  \* ---- the fonts of the machine and the font catalog (font_mapper.py) ----
  env,               \* the platform and its font files, see THE FONT CATALOG
  corrupt,           \* the font files ImageFont.truetype fails to load
  font_mapper,       \* the module global _font_mapper: [id, catalog], or NoMapper
  builds,            \* how many times FontMapper._build_font_map has run
  \* ---- threads inside get_font_mapper() ----
  tpc,               \* tpc[t]: "start", "construct", "store", "return", "done"
  tlocal,            \* tlocal[t]: the FontMapper thread t has constructed
  tret,              \* tret[t]: the FontMapper returned to thread t
  \* ---- one call of get_font_path, _load_font or create_text_watermark ----
  request,           \* [font_name, bold, italic] of the call
  resolved_family,   \* get_font_path: family_name, or None
  resolved_path,     \* the path get_font_path returned / _load_font loads, or None
  loaded_font,       \* the font _load_font returned, or NoFont
  needs_simulated,   \* <<needs_simulated_bold, needs_simulated_italic>>
  text_layer,        \* the image create_text_watermark returned, or NoLayer
  drawn,             \* what _draw_text_with_effects drew, in order
  fpc,               \* "idle", "mapped", "loaded", "drawn"
  \* ---- placement and compositing (MainWindow._apply_watermark_to_image) ----
  image_size,        \* <<width, height>> of the canvas image
  watermark_size,    \* <<width, height>> of the watermark layer
  position_config,   \* [position, h_margin, v_margin, custom_x, custom_y]
  position,          \* result of _calculate_watermark_position, or None
  watermark_bounds,  \* <<x, y, width, height>> reported to the preview, or None
  paste_at,          \* <<x, y>> at which apply_watermark pastes the layer, or None
  pasted,            \* the region of the canvas the paste writes, or None
  preset_positions,  \* result of WatermarkProcessor.get_preset_positions, or None
  cli_position,      \* result of WatermarkRenderer._calculate_position, or None
  rpc,               \* position of the render call: "watermark", "positioned", "applied"
  \* ---- image objects and one call of apply_watermark / render_watermark ----
  heap,              \* the image objects: heap[id] = [mode, size, px]
  base_image,        \* the canvas image given to the call (an index of heap)
  watermark,         \* the layer image given to apply_watermark
  apply_args,        \* [position, opacity] given to apply_watermark
  returned_image,    \* the image the call returned, or NoImage
  ipc,               \* "idle", "given", "applied", "failed", "rendered"
  \* ---- one call of a method of the FontMapper ----
  call,              \* [fn, font_name, bold, italic]: the method and arguments
  call_result,       \* [value, flag, names, parsed]: what the method returned
  \* ---- one call of _draw_text_with_effects in which steps may raise ----
  draw_call,         \* [plain, needs, fails, layer] of the call
  draw_result,       \* [ops, raised]: what was drawn, whether it raised
  dpc,               \* "idle", "layer", "drawn", "raised"
  \* ---- one batch run (process_directory, batch_export) ----
  batch_call,        \* [kind, items, callback, raises_at]: the run and its inputs
  batch_run,         \* [i, attempted, callbacks, success, failed, total]
  bpc,               \* "idle", "loop", "callback", "returned", "raised"
  \* ---- one export of the file list with a Cancel button ----
  export_call,       \* [kind, items]: the loop and what becomes of each file
  export_run,        \* [i, started, completed, exported, success_count, ...]
  xpc,               \* "idle", "check", "update", "image", "done"
  \* ---- one render call with a rotation (_apply_watermark_to_image) ----
  rot_call,          \* [image_size, watermark_size, rotation, position_config, raises]
  rot_layer,         \* [size, rotated_by]: the layer `watermark` designates
  rot_placed,        \* [position, bounds, pasted]: what lines 596-607 computed
  qpc,               \* "idle", "watermark", "rotated", "positioned", "applied"
  \* ---- the passes that paint one text (create_text_watermark, render_watermark) ----
  paint_call,        \* [renderer, xy, shadow, shadow_offset, stroke_width, needs]
  passes,            \* the passes painted, in order: [layer, pass, base, dx, dy, buffer]
  ppc,               \* "idle", "canvas", "painted"
  \* ---- the construction of a WatermarkConfig (photo_watermark) ----
  cfg_call,          \* [font_size, opacity, margin] given to WatermarkConfig(...)
  cfg_result,        \* [made, config, raised]: the object made, or the message of the ValueError
  cpc,               \* "idle", "call", "done"
  \* ---- ImageProcessor.process_single_image (photo_watermark) ----
  single_call,       \* [load, date, render, save, existed, removes]: what each step of the call does
  single_run,        \* [out, returned]: the output file and what the call returned
  spc,               \* "idle", "load", "date", "render", "save", "done"
  \* ---- the list of the FileManager ----
  image_files,       \* FileManager.image_files: the entries, each [path]
  fm_last,           \* the last call: [op, arg (the path), index, returned, count, before (the list before it)]
  \* ---- the current image of the main window ----
  shown_files,       \* the files of the file manager, in the order of the list
  current_image_index,\* MainWindow.current_image_index
  current_image,     \* MainWindow.current_image: the file it was loaded from, 0 for None
  mw_last,           \* the last event: [op, index, removed, before_index, before_files]
  \* ---- the files written by ImageExporter.export_image ----
  out_dir,           \* the files there are: a set of [name, content]
  xp_calls,          \* the number of calls of export_image made
  xp_last            \* the last call: [output_path, format_type, returned, saved_to, before]

placeVars == <<image_size, watermark_size, position_config, position,
               watermark_bounds, paste_at, pasted, preset_positions,
               cli_position, rpc>>

mapperVars == <<env, corrupt, font_mapper, builds>>

threadVars == <<tpc, tlocal, tret>>

fontVars == <<request, resolved_family, resolved_path, loaded_font,
              needs_simulated, text_layer, drawn, fpc>>

imageVars == <<heap, base_image, watermark, apply_args, returned_image, ipc>>

\* the variables of the calls modelled after placement
resolveVars == <<call, call_result>>

drawVars == <<draw_call, draw_result, dpc>>

batchVars == <<batch_call, batch_run, bpc>>

exportVars == <<export_call, export_run, xpc>>

rotateVars == <<rot_call, rot_layer, rot_placed, qpc>>

paintVars == <<paint_call, passes, ppc>>

configVars == <<cfg_call, cfg_result, cpc>>

singleVars == <<single_call, single_run, spc>>

filesVars == <<image_files, fm_last>>

windowVars == <<shown_files, current_image_index, current_image, mw_last>>

saveVars == <<out_dir, xp_calls, xp_last>>

\* the variables of the batch runs, the file list and the main window
appVars == <<batchVars, exportVars, rotateVars, paintVars, configVars,
             singleVars, filesVars, windowVars, saveVars>>

otherVars == <<imageVars, resolveVars, drawVars, appVars>>

vars == <<mapperVars, threadVars, fontVars, placeVars, otherVars>>

\* the variables of the font, layer and compositing machines
coreVars == <<mapperVars, threadVars, fontVars, placeVars, imageVars,
              resolveVars, drawVars>>

\* what the actions of one machine leave alone
notBatchVars == <<coreVars, exportVars, rotateVars, paintVars, configVars,
                  singleVars, filesVars, windowVars, saveVars>>

notExportVars == <<coreVars, batchVars, rotateVars, paintVars, configVars,
                   singleVars, filesVars, windowVars, saveVars>>

notRotateVars == <<coreVars, batchVars, exportVars, paintVars, configVars,
                   singleVars, filesVars, windowVars, saveVars>>

notPaintVars == <<coreVars, batchVars, exportVars, rotateVars, configVars,
                  singleVars, filesVars, windowVars, saveVars>>

notConfigVars == <<coreVars, batchVars, exportVars, rotateVars, paintVars,
                   singleVars, filesVars, windowVars, saveVars>>

notSingleVars == <<coreVars, batchVars, exportVars, rotateVars, paintVars,
                   configVars, filesVars, windowVars, saveVars>>

notFilesVars == <<coreVars, batchVars, exportVars, rotateVars, paintVars,
                  configVars, singleVars, windowVars, saveVars>>

notWindowVars == <<coreVars, batchVars, exportVars, rotateVars, paintVars,
                   configVars, singleVars, filesVars, saveVars>>

notSaveVars == <<coreVars, batchVars, exportVars, rotateVars, paintVars,
                 configVars, singleVars, filesVars, windowVars>>

None == "None"

\* "not computed yet" for a coordinate pair and for a table of pairs.
NoPos == <<>>

Max(a, b) == IF a >= b THEN a ELSE b
Min(a, b) == IF a <= b THEN a ELSE b

(***************************************************************************)
(*                               STRINGS                                   *)
(* Python str operations used by the font code, on TLA+ strings.  The      *)
(* Chinese characters of the font names are written as the digits 1-8:     *)
(*   1 2 3 4 = wei ruan ya hei (Microsoft YaHei), 5 6 = song ti (SimSun),  *)
(*   4 6 = hei ti (SimHei), 7 5 = fang song (FangSong),                    *)
(*   8 6 = kai ti (KaiTi).                                                 *)
(***************************************************************************)

\* The characters with ord(c) > 127.
NonAscii == {"1", "2", "3", "4", "5", "6", "7", "8"}

UpperAlphabet == "ABCDEFGHIJKLMNOPQRSTUVWXYZ"
LowerAlphabet == "abcdefghijklmnopqrstuvwxyz"

Char(s, i) == SubSeq(s, i, i)

Rest(s, i) == SubSeq(s, i, Len(s))

\* sub in s
Contains(s, sub) ==
  \E i \in 1..(Len(s) - Len(sub) + 1) : SubSeq(s, i, i + Len(sub) - 1) = sub

\* the lower-case letter of every upper-case letter, and the converse
ToLower ==
  [c \in { Char(UpperAlphabet, i) : i \in 1..26 } |->
     Char(LowerAlphabet, CHOOSE i \in 1..26 : Char(UpperAlphabet, i) = c)]

ToUpper ==
  [c \in { Char(LowerAlphabet, i) : i \in 1..26 } |->
     Char(UpperAlphabet, CHOOSE i \in 1..26 : Char(LowerAlphabet, i) = c)]

LowerChar(c) == IF c \in DOMAIN ToLower THEN ToLower[c] ELSE c

UpperChar(c) == IF c \in DOMAIN ToUpper THEN ToUpper[c] ELSE c

RECURSIVE Lower(_)
\* s.lower(), by halves
Lower(s) ==
  IF Len(s) = 0 THEN ""
  ELSE IF Len(s) = 1 THEN LowerChar(s)
  ELSE Lower(SubSeq(s, 1, Len(s) \div 2)) \o Lower(Rest(s, Len(s) \div 2 + 1))

RECURSIVE Upper(_)
\* s.upper(), by halves
Upper(s) ==
  IF Len(s) = 0 THEN ""
  ELSE IF Len(s) = 1 THEN UpperChar(s)
  ELSE Upper(SubSeq(s, 1, Len(s) \div 2)) \o Upper(Rest(s, Len(s) \div 2 + 1))

\* s.capitalize()
Capitalize(s) ==
  IF s = "" THEN "" ELSE UpperChar(Char(s, 1)) \o Lower(Rest(s, 2))

\* s.find(sub) + 1 for a sub that occurs in s: the leftmost occurrence
FirstIndex(s, sub) ==
  CHOOSE i \in 1..(Len(s) - Len(sub) + 1) :
    /\ SubSeq(s, i, i + Len(sub) - 1) = sub
    /\ \A j \in 1..(i - 1) : SubSeq(s, j, j + Len(sub) - 1) # sub

RECURSIVE Replace(_, _, _)
\* s.replace(old, new), for a non-empty old: the occurrences are replaced
\* from left to right, without overlap
Replace(s, old, new) ==
  IF ~Contains(s, old) THEN s
  ELSE LET i == FirstIndex(s, old)
       IN SubSeq(s, 1, i - 1) \o new \o Replace(Rest(s, i + Len(old)), old, new)

\* s.lstrip(chars)
LStrip(s, chars) ==
  IF \A i \in 1..Len(s) : Contains(chars, Char(s, i)) THEN ""
  ELSE Rest(s, CHOOSE i \in 1..Len(s) :
                 /\ ~Contains(chars, Char(s, i))
                 /\ \A j \in 1..(i - 1) : Contains(chars, Char(s, j)))

\* s.rstrip(chars)
RStrip(s, chars) ==
  IF \A i \in 1..Len(s) : Contains(chars, Char(s, i)) THEN ""
  ELSE SubSeq(s, 1, CHOOSE i \in 1..Len(s) :
                      /\ ~Contains(chars, Char(s, i))
                      /\ \A j \in (i + 1)..Len(s) : Contains(chars, Char(s, j)))

\* s.strip(chars); s.strip() is Strip(s, " ")
Strip(s, chars) == RStrip(LStrip(s, chars), chars)

\* s.split(sep)[0], for a one-character sep
SplitFirst(s, sep) ==
  IF Contains(s, sep)
    THEN SubSeq(s, 1, (CHOOSE i \in 1..Len(s) :
                          /\ Char(s, i) = sep
                          /\ \A j \in 1..(i - 1) : Char(s, j) # sep) - 1)
    ELSE s

\* s.endswith(suffix)
EndsWith(s, suffix) ==
  Len(suffix) <= Len(s) /\ SubSeq(s, Len(s) - Len(suffix) + 1, Len(s)) = suffix

\* any(k in s for k in keywords), keywords a sequence of strings
AnyIn(keywords, s) == \E i \in 1..Len(keywords) : Contains(s, keywords[i])

\* os.path.splitext(file)[0] for a file name with at most a final extension
SplitExt(file) ==
  IF \E i \in 2..Len(file) : Char(file, i) = "."
    THEN SubSeq(file, 1, (CHOOSE i \in 2..Len(file) :
                            /\ Char(file, i) = "."
                            /\ \A j \in (i + 1)..Len(file) : Char(file, j) # ".") - 1)
    ELSE file

(***************************************************************************)
(*                         ORDERED DICTIONARIES                            *)
(* A Python dict keeps its keys in insertion order, and the font code      *)
(* iterates over keys() and takes list(values())[0]: a dict is modelled    *)
(* as the sequence of its <<key, value>> items.                            *)
(***************************************************************************)

EmptyDict == <<>>

Keys(d) == [i \in 1..Len(d) |-> d[i][1]]

Has(d, k) == \E i \in 1..Len(d) : d[i][1] = k

IndexOf(d, k) == CHOOSE i \in 1..Len(d) : d[i][1] = k

\* d[k]
Get(d, k) == d[IndexOf(d, k)][2]

\* d.get(k), None when absent
GetOrNone(d, k) == IF Has(d, k) THEN Get(d, k) ELSE None

\* d[k] = v: an existing key keeps its place
Put(d, k, v) ==
  IF Has(d, k) THEN [d EXCEPT ![IndexOf(d, k)] = <<k, v>>]
               ELSE Append(d, <<k, v>>)

(***************************************************************************)
(*                      FONT NAME AND FILE NAME PARSING                    *)
(***************************************************************************)

\* "a if a else b", for strings
OrElse(a, b) == IF a # "" THEN a ELSE b

\* _parse_font_name: style_keywords
StyleKeywords ==
  <<"Bold", "Italic", "Regular", "Normal", "Heavy", "Black", "Light", "Thin",
    "Oblique", "Ultra", "Semi", "Demi", "Extra">>

RECURSIVE RemoveStyleKeywords(_, _)
\* for keyword in style_keywords:
\*   family_name = family_name.replace(f' {keyword}', '').replace(keyword, '')
\* from keyword i on (nothing is left to remove from an empty name)
RemoveStyleKeywords(family_name, i) ==
  IF i > Len(StyleKeywords) \/ family_name = "" THEN family_name
  ELSE RemoveStyleKeywords(
         Replace(Replace(family_name, " " \o StyleKeywords[i], ""),
                 StyleKeywords[i], ""),
         i + 1)

\* _parse_font_name, lines 164-184, for the name without its type suffix
ParseCleanName(name) ==
  <<Strip(RemoveStyleKeywords(IF Contains(name, "&")
                                THEN Strip(SplitFirst(name, "&"), " ")
                                ELSE name, 1), " "),
    AnyIn(<<"Bold", "Heavy", "Black">>, name) /\ ~AnyIn(<<"Light", "Thin">>, name),
    AnyIn(<<"Italic", "Oblique">>, name)>>

\* font_name.replace(' (TrueType)', '').replace(' (OpenType)', '')
CleanName(font_name) ==
  Replace(Replace(font_name, " (TrueType)", ""), " (OpenType)", "")

\* FontMapper._parse_font_name: <<family_name, is_bold, is_italic>>
ParseFontName(font_name) == ParseCleanName(CleanName(font_name))

\* _parse_filename: style_patterns
StylePatterns ==
  <<"bold", "bd", "italic", "it", "oblique", "slant", "regular", "normal",
    "heavy", "black", "light">>

RECURSIVE RemoveStylePatterns(_, _)
\* for pattern in style_patterns:
\*   family_name = family_name.replace(pattern, '').replace(
\*       pattern.upper(), '').replace(pattern.capitalize(), '')
\* from pattern i on (nothing is left to remove from an empty name)
RemoveStylePatterns(family_name, i) ==
  IF i > Len(StylePatterns) \/ family_name = "" THEN family_name
  ELSE RemoveStylePatterns(
         Replace(Replace(Replace(family_name, StylePatterns[i], ""),
                         Upper(StylePatterns[i]), ""),
                 Capitalize(StylePatterns[i]), ""),
         i + 1)

\* _parse_filename, lines 283-287, for the lower-case file name
StyleOfFilename(name_lower) ==
  <<AnyIn(<<"bold", "bd", "heavy", "black">>, name_lower),
    AnyIn(<<"italic", "it", "oblique", "slant">>, name_lower)>>

\* FontMapper._parse_filename: <<family_name, is_bold, is_italic>>
ParseFilename(filename) ==
  <<OrElse(Strip(RemoveStylePatterns(filename, 1), "_-. "), filename)>>
  \o StyleOfFilename(Lower(filename))

(***************************************************************************)
(*                          THE FONT CATALOG                               *)
(* A FontMapper holds three dictionaries: base_fonts (family -> path),     *)
(* font_variants (family -> {(bold, italic) -> path}) and font_map         *)
(* (name -> path).  The environment `e` of a build is                      *)
(*   system       platform.system()                                        *)
(*   registry_ok  the font registry key can be opened (Windows)            *)
(*   registry     the values of the registry key, <<font_name, font_file>> *)
(*   win_files    the files present in C:\Windows\Fonts                    *)
(*   scan_dirs    the font directories that exist, each [root, files] in   *)
(*                the order os.walk yields them                            *)
(***************************************************************************)

EmptyCatalog ==
  [base_fonts |-> EmptyDict, font_variants |-> EmptyDict, font_map |-> EmptyDict]

WindowsFontsDir == "C:\\Windows\\Fonts\\"

\* os.path.join(root, file) as os.walk roots are joined
JoinPath(e, root, file) ==
  IF EndsWith(root, "/") \/ EndsWith(root, "\\") THEN root \o file
  ELSE IF e.system = "Windows" THEN root \o "\\" \o file
  ELSE root \o "/" \o file

\* the spelling of a path that the file system compares: on Windows "/" and
\* "\" both separate directories
NormPath(e, path) ==
  IF e.system = "Windows" THEN Replace(path, "/", "\\") ELSE path

\* the font files of the environment, as <<path, file name>>
FontFiles(e) ==
  { <<WindowsFontsDir \o f, f>> : f \in e.win_files }
  \cup UNION { { <<NormPath(e, JoinPath(e, e.scan_dirs[i].root,
                                         e.scan_dirs[i].files[j])),
                   e.scan_dirs[i].files[j]>> :
                 j \in 1..Len(e.scan_dirs[i].files) } :
               i \in 1..Len(e.scan_dirs) }

\* os.path.exists(path), for a string path
Exists(e, path) ==
  \E f \in FontFiles(e) : f[1] = NormPath(e, path)

\* d.get(k, {}) of a dictionary of dictionaries
GetOrEmpty(d, k) == IF Has(d, k) THEN Get(d, k) ELSE EmptyDict

\* _scan_font_directory, lines 259-274: record one font file, parsed being
\* _parse_filename(font_name)
ScanFont(cat, font_path, font_name, file, parsed) ==
  [base_fonts |->
     IF parsed[1] # "" /\ ~parsed[2] /\ ~parsed[3]
       THEN Put(cat.base_fonts, parsed[1], font_path)
       ELSE cat.base_fonts,
   font_variants |->
     IF parsed[1] # ""
       THEN Put(cat.font_variants, parsed[1],
                Put(GetOrEmpty(cat.font_variants, parsed[1]),
                    <<parsed[2], parsed[3]>>, font_path))
       ELSE cat.font_variants,
   font_map |-> Put(Put(cat.font_map, font_name, font_path), file, font_path)]

\* file.lower().endswith(('.ttf', '.ttc', '.otf'))
IsFontFile(file_lower) ==
  \/ EndsWith(file_lower, ".ttf")
  \/ EndsWith(file_lower, ".ttc")
  \/ EndsWith(file_lower, ".otf")

\* FontMapper._scan_font_directory, the body of the loop for one file
ScanFile(e, cat, root, file) ==
  IF IsFontFile(Lower(file))
    THEN ScanFont(cat, JoinPath(e, root, file), SplitExt(file), file,
                  ParseFilename(SplitExt(file)))
    ELSE cat

RECURSIVE ScanFiles(_, _, _, _, _)
\* FontMapper._scan_font_directory, the files of one directory from i on
ScanFiles(e, cat, root, files, i) ==
  IF i > Len(files) THEN cat
  ELSE ScanFiles(e, ScanFile(e, cat, root, files[i]), root, files, i + 1)

\* the walk of the directory raises: after raises_after files have been
\* recorded when the directory has that field, never otherwise
ScanRaises(dir) == "raises_after" \in DOMAIN dir

\* the files _scan_font_directory records before its handler (lines 276-277)
\* ends the scan
ScannedFiles(dir) ==
  IF ScanRaises(dir) THEN SubSeq(dir.files, 1, dir.raises_after)
                     ELSE dir.files

\* FontMapper._scan_font_directory
ScanFontDirectory(e, cat, dir) ==
  ScanFiles(e, cat, dir.root, ScannedFiles(dir), 1)

RECURSIVE ScanFontDirs(_, _, _, _)
\* for font_dir in font_dirs: if os.path.exists(font_dir): scan it
ScanFontDirs(e, cat, dirs, i) ==
  IF i > Len(dirs) THEN cat
  ELSE ScanFontDirs(e, ScanFontDirectory(e, cat, dirs[i]), dirs, i + 1)

\* the directories up to the first one whose scan raises
DirsToFirstRaise(dirs) ==
  IF \E i \in 1..Len(dirs) : ScanRaises(dirs[i])
    THEN SubSeq(dirs, 1, CHOOSE i \in 1..Len(dirs) :
                           /\ ScanRaises(dirs[i])
                           /\ \A j \in 1..(i - 1) : ~ScanRaises(dirs[j]))
    ELSE dirs

\* a build that a raising scan ends: the directories after it are not
\* scanned
BuildScannedFontMap_StopAtRaise(e) ==
  ScanFontDirs(e, EmptyCatalog, DirsToFirstRaise(e.scan_dirs), 1)

\* FontMapper._build_macos_font_map and FontMapper._build_linux_font_map
BuildScannedFontMap(e) == ScanFontDirs(e, EmptyCatalog, e.scan_dirs, 1)

\* _build_windows_font_map, lines 61-71: one registry value
RegistryFont(e, registry_fonts, font_name, font_path) ==
  IF Exists(e, font_path) THEN Put(registry_fonts, font_name, font_path)
                          ELSE registry_fonts

RECURSIVE RegistryFonts(_, _, _)
\* _build_windows_font_map: registry_fonts, the registry values whose file
\* exists, from value i on
RegistryFonts(e, registry_fonts, i) ==
  IF i > Len(e.registry) THEN registry_fonts
  ELSE RegistryFonts(e,
         RegistryFont(e, registry_fonts, e.registry[i][1],
                      WindowsFontsDir \o e.registry[i][2]),
         i + 1)

\* _parse_font_registry, lines 99-110: one registry font, parsed being
\* _parse_font_name(font_name); acc is [font_families, font_map]
FontFamily(acc, font_name, font_path, parsed, clean_name) ==
  [font_families |->
     Put(acc.font_families, parsed[1],
         Put(GetOrEmpty(acc.font_families, parsed[1]),
             <<parsed[2], parsed[3]>>, font_path)),
   font_map |->
     Put(Put(acc.font_map, font_name, font_path), clean_name, font_path)]

RECURSIVE FontFamilies(_, _, _)
\* _parse_font_registry, first loop, from item i of registry_fonts on
FontFamilies(registry_fonts, acc, i) ==
  IF i > Len(registry_fonts) THEN acc
  ELSE FontFamilies(registry_fonts,
         FontFamily(acc, registry_fonts[i][1], registry_fonts[i][2],
                    ParseFontName(registry_fonts[i][1]),
                    CleanName(registry_fonts[i][1])),
         i + 1)

RECURSIVE FilterLight(_, _, _)
\* _parse_font_registry: filtered_variants, the variants whose path holds
\* none of 'light', 'thin', 'ultralight'
FilterLight(variants, filtered, i) ==
  IF i > Len(variants) THEN filtered
  ELSE FilterLight(variants,
         IF ~AnyIn(<<"light", "thin", "ultralight">>, Lower(variants[i][2]))
           THEN Put(filtered, variants[i][1], variants[i][2])
           ELSE filtered,
         i + 1)

\* _parse_font_registry, lines 141-149: the base font of a family without a
\* regular variant
FirstStandard(variants, filtered_variants) ==
  IF Len(filtered_variants) > 0
    THEN IF Has(filtered_variants, <<FALSE, FALSE>>)
           THEN Get(filtered_variants, <<FALSE, FALSE>>)
           ELSE filtered_variants[1][2]
    ELSE variants[1][2]

\* _parse_font_registry, lines 117-149: the base font chosen for a family
BaseFont(e, family_name, variants) ==
  IF family_name = "Microsoft YaHei" /\ Exists(e, WindowsFontsDir \o "msyh.ttc")
    THEN WindowsFontsDir \o "msyh.ttc"
  ELSE IF Has(variants, <<FALSE, FALSE>>)
    THEN Get(variants, <<FALSE, FALSE>>)
  ELSE IF Len(variants) = 0
    THEN None
  ELSE FirstStandard(variants, FilterLight(variants, EmptyDict, 1))

\* _add_font_aliases: chinese_aliases, as <<main_name, alias_list>> items
ChineseAliases ==
  << <<"Microsoft YaHei", <<"1234", "MicroSoft YaHei UI", "msyh">> >>,
     <<"SimSun", <<"56", "NSimSun", "STSONG">> >>,
     <<"SimHei", <<"46", "STHEITISC">> >>,
     <<"FangSong", <<"75", "STFANGSO">> >>,
     <<"KaiTi", <<"86", "STKAITI">> >> >>

RECURSIVE AliasesFor(_, _)
\* _add_font_aliases: the list `aliases` collected for a family name
AliasesFor(family_name, i) ==
  IF i > Len(ChineseAliases) THEN <<>>
  ELSE (IF \/ Contains(family_name, ChineseAliases[i][1])
           \/ AnyIn(ChineseAliases[i][2], family_name)
          THEN <<ChineseAliases[i][1]>> \o ChineseAliases[i][2]
          ELSE <<>>)
       \o AliasesFor(family_name, i + 1)

RECURSIVE AddAliases(_, _, _, _)
\* _add_font_aliases: "for alias in aliases: if alias not in self.base_fonts"
AddAliases(cat, aliases, font_path, i) ==
  IF i > Len(aliases) THEN cat
  ELSE AddAliases(
         IF ~Has(cat.base_fonts, aliases[i])
           THEN [cat EXCEPT !.font_map = Put(@, aliases[i], font_path),
                            !.base_fonts = Put(@, aliases[i], font_path)]
           ELSE cat,
         aliases, font_path, i + 1)

\* FontMapper._add_font_aliases
AddFontAliases(e, cat, family_name, base_font) ==
  AddAliases(cat, AliasesFor(family_name, 1),
             IF /\ Contains(family_name, "Microsoft YaHei")
                /\ ~AnyIn(<<"Bold", "Light">>, family_name)
                /\ Exists(e, WindowsFontsDir \o "msyh.ttc")
               THEN WindowsFontsDir \o "msyh.ttc"
               ELSE base_font,
             1)

\* _parse_font_registry, lines 114-156: one family, base_font being the
\* base font chosen for it
AddFamily(e, cat, family_name, variants, base_font) ==
  IF base_font # None /\ base_font # ""
    THEN AddFontAliases(e,
           [base_fonts |-> Put(cat.base_fonts, family_name, base_font),
            font_variants |-> Put(cat.font_variants, family_name, variants),
            font_map |-> Put(cat.font_map, family_name, base_font)],
           family_name, base_font)
    ELSE [cat EXCEPT !.font_variants = Put(@, family_name, variants)]

RECURSIVE AddFamilies(_, _, _, _)
\* _parse_font_registry, second loop, from item i of font_families on
AddFamilies(e, cat, font_families, i) ==
  IF i > Len(font_families) THEN cat
  ELSE AddFamilies(e,
         AddFamily(e, cat, font_families[i][1], font_families[i][2],
                   BaseFont(e, font_families[i][1], font_families[i][2])),
         font_families, i + 1)

\* _parse_font_registry, given the result of its first loop
AddParsedFamilies(e, cat, parsed) ==
  AddFamilies(e, [cat EXCEPT !.font_map = parsed.font_map],
              parsed.font_families, 1)

\* FontMapper._parse_font_registry
ParseFontRegistry(e, cat, registry_fonts) ==
  AddParsedFamilies(e, cat,
    FontFamilies(registry_fonts,
                 [font_families |-> EmptyDict, font_map |-> cat.font_map], 1))

\* FontMapper._build_windows_font_map: an error while the registry is read
\* ends the build with what has been recorded (nothing), the user font
\* directory included
BuildWindowsFontMap(e) ==
  IF ~e.registry_ok THEN EmptyCatalog
  ELSE ScanFontDirs(e,
         ParseFontRegistry(e, EmptyCatalog, RegistryFonts(e, EmptyDict, 1)),
         e.scan_dirs, 1)

\* FontMapper.__init__ and FontMapper._build_font_map
BuildFontMap(e) ==
  IF e.system = "Windows" THEN BuildWindowsFontMap(e)
                          ELSE BuildScannedFontMap(e)

(***************************************************************************)
(*                          FONT RESOLUTION                                *)
(***************************************************************************)

\* FontMapper._fonts_are_same_family: font_pairs
FontPairs ==
  << <<"1234", "Microsoft YaHei">>, <<"56", "SimSun">>, <<"46", "SimHei">>,
     <<"75", "FangSong">>, <<"86", "KaiTi">> >>

\* _fonts_are_same_family, given font1.lower() and font2.lower()
SameFamily(font1, font2, font1_lower, font2_lower) ==
  \E i \in 1..Len(FontPairs) :
    \/ /\ Contains(font1, FontPairs[i][1])
       /\ Contains(font2_lower, Lower(FontPairs[i][2]))
    \/ /\ Contains(font2, FontPairs[i][1])
       /\ Contains(font1_lower, Lower(FontPairs[i][2]))

\* FontMapper._fonts_are_same_family
FontsAreSameFamily(font1, font2) ==
  SameFamily(font1, font2, Lower(font1), Lower(font2))

\* the least element of a non-empty set of numbers
Least(S) == CHOOSE i \in S : \A j \in S : i <= j

\* the key of the first item of an ordered dictionary whose index is in
\* `hits`, else None
KeyAt(d, hits) == IF hits = {} THEN None ELSE d[Least(hits)][1]

\* "a in b or b in a"
EitherIn(a, b) == Contains(b, a) \/ Contains(a, b)

\* "a.lower() in b.lower() or b.lower() in a.lower()"
EitherContains(a, b) == EitherIn(Lower(a), Lower(b))

\* the first of two keys that is not None
FirstFound(a, b) == IF a # None THEN a ELSE b

\* the first family of the dictionary near the lower-case name, else None
NearFamily(d, font_lower) ==
  KeyAt(d, { i \in 1..Len(d) : EitherIn(font_lower, Lower(d[i][1])) })

\* _find_font_family: special_mappings, as <<main_name, aliases>> items
SpecialMappings ==
  << <<"1234", <<"Microsoft YaHei", "msyh", "MicroSoft YaHei UI">> >>,
     <<"56", <<"SimSun", "NSimSun", "STSONG">> >>,
     <<"46", <<"SimHei", "STHEITISC">> >>,
     <<"75", <<"FangSong", "STFANGSO">> >>,
     <<"86", <<"KaiTi", "STKAITI">> >> >>

\* ord(c) > 127 for some character of the name
HasNonAscii(font_name) ==
  \E i \in 1..Len(font_name) : Char(font_name, i) \in NonAscii

\* _find_font_family, step 1 (lines 428-441): font_name is a key of
\* base_fonts
FindBaseFamily(cat, font_name) ==
  IF Has(cat.font_variants, font_name) THEN font_name
  ELSE FirstFound(
         IF HasNonAscii(font_name)
           THEN KeyAt(cat.font_variants,
                      { i \in 1..Len(cat.font_variants) :
                          FontsAreSameFamily(font_name,
                                             cat.font_variants[i][1]) })
           ELSE None,
         FirstFound(NearFamily(cat.font_variants, Lower(font_name)),
                    font_name))

\* any(alias.lower() in family.lower() for alias in names)
NamedBy(names, family_lower) ==
  \E k \in 1..Len(names) : Contains(family_lower, Lower(names[k]))

\* the first family of the dictionary that one of the names names, else None
FamilyNamedBy(d, names) ==
  KeyAt(d, { i \in 1..Len(d) : NamedBy(names, Lower(d[i][1])) })

\* _find_font_family, step 3 (lines 457-466) for the entry with these names:
\* the family found, or None to go on with the next entry
SpecialFamily(cat, font_name, names) ==
  IF \E k \in 1..Len(names) : font_name = names[k]
    THEN FirstFound(
           FamilyNamedBy(cat.font_variants, names),
           FamilyNamedBy(cat.base_fonts, names))
    ELSE None

\* [main_name] + aliases of an entry of special_mappings
SpecialNames(i) == <<SpecialMappings[i][1]>> \o SpecialMappings[i][2]

RECURSIVE SpecialFamilies(_, _, _)
\* _find_font_family, step 3, from entry i of special_mappings on
SpecialFamilies(cat, font_name, i) ==
  IF i > Len(SpecialMappings) THEN None
  ELSE FirstFound(SpecialFamily(cat, font_name, SpecialNames(i)),
                  SpecialFamilies(cat, font_name, i + 1))

\* _find_font_family, lines 486-490: the family of a name of font_map, if
\* it is known
KnownFamily(cat, parsed_family) ==
  IF Has(cat.font_variants, parsed_family) \/ Has(cat.base_fonts, parsed_family)
    THEN parsed_family
    ELSE None

RECURSIVE FamilyFromFontMap(_, _, _)
\* _find_font_family, step 4, the last loop, from item i of font_map on
FamilyFromFontMap(cat, font_lower, i) ==
  IF i > Len(cat.font_map) THEN None
  ELSE FirstFound(
         IF EitherIn(font_lower, Lower(cat.font_map[i][1]))
           THEN KnownFamily(cat, ParseFontName(cat.font_map[i][1])[1])
           ELSE None,
         FamilyFromFontMap(cat, font_lower, i + 1))

\* _find_font_family, step 4 (lines 469-492)
FuzzyFamily(cat, font_lower) ==
  FirstFound(NearFamily(cat.font_variants, font_lower),
             FirstFound(NearFamily(cat.base_fonts, font_lower),
                        FamilyFromFontMap(cat, font_lower, 1)))

\* _find_font_family without the table of special names (step 3)
FindFontFamily_NoSpecialMappings(cat, font_name) ==
  IF Has(cat.base_fonts, font_name) THEN FindBaseFamily(cat, font_name)
  ELSE IF Has(cat.font_variants, font_name) THEN font_name
  ELSE FuzzyFamily(cat, Lower(font_name))

\* FontMapper._find_font_family
FindFontFamily(cat, font_name) ==
  IF Has(cat.base_fonts, font_name) THEN FindBaseFamily(cat, font_name)
  ELSE IF Has(cat.font_variants, font_name) THEN font_name
  ELSE FirstFound(SpecialFamilies(cat, font_name, 1),
                  FuzzyFamily(cat, Lower(font_name)))

\* _is_chinese_font: chinese_font_names
ChineseFontNames ==
  <<"Microsoft YaHei", "1234", "SimSun", "56", "SimHei", "46", "FangSong",
    "75", "KaiTi", "86", "STSong", "STHeiti", "STFangSong", "STKaiti">>

\* _is_chinese_font, given font_name.lower()
IsChineseName(font_lower) ==
  \E i \in 1..Len(ChineseFontNames) :
    EitherIn(Lower(ChineseFontNames[i]), font_lower)

\* FontMapper._is_chinese_font
IsChineseFont(font_name) == IsChineseName(Lower(font_name))

\* the first of the files, in C:\Windows\Fonts, whose index is in `there`
FileAt(files, there) ==
  IF there = {} THEN None ELSE WindowsFontsDir \o files[Least(there)]

\* _handle_chinese_font_variant: the first of the files, in C:\Windows\Fonts,
\* that exists, else None
FirstExisting(e, files) ==
  FileAt(files, { i \in 1..Len(files) : Exists(e, WindowsFontsDir \o files[i]) })

\* _handle_chinese_font_variant, lines 363-397: the files tried for
\* Microsoft YaHei
YaHeiFiles(bold, italic) ==
  IF bold THEN <<"msyhbd.ttc", "msyh.ttc">>
  ELSE IF italic THEN <<"msyh.ttc">>
  ELSE <<"msyh.ttc", "msyhl.ttc">>

\* the base variant only, whatever is asked for
ChineseFallbackOptions_BaseOnly(bold, italic) ==
  << <<FALSE, FALSE>> >>

\* _handle_chinese_font_variant, lines 400-422: the variants tried for any
\* family; the last resort is variants.get((False, False))
ChineseFallbackOptions(bold, italic) ==
  IF bold THEN << <<TRUE, FALSE>>, <<FALSE, FALSE>> >>
          ELSE << <<FALSE, FALSE>> >>

\* the first of the options, in this order, that is a key of variants and
\* is not `skip`: its path, else `otherwise`
FirstVariant(variants, options, skip, otherwise) ==
  IF \E i \in 1..Len(options) : Has(variants, options[i]) /\ options[i] # skip
    THEN Get(variants,
             options[Least({ i \in 1..Len(options) :
                               Has(variants, options[i]) /\ options[i] # skip })])
    ELSE otherwise

\* FontMapper._handle_chinese_font_variant
HandleChineseFontVariant(e, family_name, variants, bold, italic) ==
  FirstFound(
    IF Contains(family_name, "Microsoft YaHei") \/ Contains(family_name, "1234")
      THEN FirstExisting(e, YaHeiFiles(bold, italic))
      ELSE None,
    FirstVariant(variants, ChineseFallbackOptions(bold, italic), <<>>, None))

\* fallback_options that keep the requested flag and take the other style
\* either way
FallbackOptions_AnyOtherStyle(bold, italic) ==
  << <<bold, ~italic>>, <<~bold, italic>>, <<FALSE, FALSE>> >>

\* get_font_path: fallback_options
FallbackOptions(bold, italic) ==
  << <<bold, FALSE>>, <<FALSE, italic>>, <<FALSE, FALSE>> >>

\* get_font_path, lines 314-339, for the family found and its variants
GetVariantPath(e, cat, family_name, variants, bold, italic) ==
  IF Has(variants, <<bold, italic>>)
    THEN Get(variants, <<bold, italic>>)
  ELSE IF IsChineseFont(family_name)
    THEN HandleChineseFontVariant(e, family_name, variants, bold, italic)
  ELSE FirstVariant(variants, FallbackOptions(bold, italic), <<bold, italic>>,
                    GetOrNone(cat.base_fonts, family_name))

\* get_font_path, lines 309-339, for the result of _find_font_family
GetFamilyPath(e, cat, font_name, family_name, bold, italic) ==
  IF family_name = None \/ family_name = ""
    THEN GetOrNone(cat.font_map, font_name)
  ELSE IF ~Has(cat.font_variants, family_name)
    THEN GetOrNone(cat.base_fonts, family_name)
  ELSE GetVariantPath(e, cat, family_name, Get(cat.font_variants, family_name),
                      bold, italic)

\* FontMapper.get_font_path; None when nothing is found
GetFontPath(e, cat, font_name, bold, italic) ==
  GetFamilyPath(e, cat, font_name, FindFontFamily(cat, font_name), bold, italic)

(***************************************************************************)
(*                            FONT LOADING                                 *)
(* A font object is [path |-> p]: ImageFont.truetype records the file it   *)
(* loaded; the built-in font of ImageFont.load_default() has no file path. *)
(* `bad` is the set of font files that ImageFont.truetype cannot load.     *)
(***************************************************************************)

\* ImageFont.load_default()
DefaultFont == [path |-> ""]

\* no font: ImageFont.truetype raised
NoFont == [path |-> None]

\* a font, else the other one
FontOr(a, b) == IF a # NoFont THEN a ELSE b

\* os.path.basename(path)
Basename(path) ==
  Rest(path, 1 + Max(0, Max(
    IF Contains(path, "/")
      THEN CHOOSE i \in 1..Len(path) :
             Char(path, i) = "/" /\ ~Contains(Rest(path, i + 1), "/")
      ELSE 0,
    IF Contains(path, "\\")
      THEN CHOOSE i \in 1..Len(path) :
             Char(path, i) = "\\" /\ ~Contains(Rest(path, i + 1), "\\")
      ELSE 0)))

\* the directories in which ImageFont.truetype looks for a file that it
\* cannot open as given
TruetypeDirs(e) ==
  IF e.system = "Windows" THEN <<WindowsFontsDir>>
  ELSE IF e.system = "Darwin"
    THEN <<"/Library/Fonts", "/System/Library/Fonts">>
  ELSE <<"/usr/share/fonts">>

\* ImageFont.truetype for a file that cannot be opened as given: the file
\* of that name, with or without its extension, in the directories searched
\* (the machines considered have one such file at most)
TruetypeNamed(bad, named) ==
  IF named = {} \/ (CHOOSE f \in named : TRUE)[1] \in bad THEN NoFont
  ELSE [path |-> (CHOOSE f \in named : TRUE)[1]]

\* the font files that ImageFont.truetype finds for a file name
TruetypeFiles(e, ttf_filename) ==
  { f \in FontFiles(e) :
      /\ \E i \in 1..Len(TruetypeDirs(e)) :
           /\ Len(f[1]) >= Len(TruetypeDirs(e)[i])
           /\ SubSeq(f[1], 1, Len(TruetypeDirs(e)[i])) = TruetypeDirs(e)[i]
      /\ (f[2] = ttf_filename \/ SplitExt(f[2]) = ttf_filename) }

\* ImageFont.truetype(font_path, font_size)
Truetype(e, bad, font_path) ==
  IF Exists(e, font_path) /\ NormPath(e, font_path) \notin bad
    THEN [path |-> font_path]
    ELSE TruetypeNamed(bad, TruetypeFiles(e, Basename(font_path)))

\* _load_font: fallback_fonts
FallbackFonts(e) ==
  IF e.system = "Windows"
    THEN <<"C:/Windows/Fonts/msyh.ttc", "C:/Windows/Fonts/arial.ttf">>
  ELSE IF e.system = "Darwin"
    THEN <<"/System/Library/Fonts/Helvetica.ttc",
           "/System/Library/Fonts/Arial.ttf">>
  ELSE <<"/usr/share/fonts/truetype/dejavu/DejaVuSans.ttf">>

RECURSIVE LoadFallbackFonts(_, _, _, _)
\* _load_font, lines 72-83: the fallback fonts from i on, then the built-in
\* font
LoadFallbackFonts(e, bad, fallback_fonts, i) ==
  IF i > Len(fallback_fonts) THEN DefaultFont
  ELSE FontOr(IF Exists(e, fallback_fonts[i])
                THEN Truetype(e, bad, fallback_fonts[i])
                ELSE NoFont,
              LoadFallbackFonts(e, bad, fallback_fonts, i + 1))

LoadFallbackFont_BuiltInOnly(e, bad) == DefaultFont

\* _load_font, steps 5 and 6: the first fallback font that exists and loads,
\* else the built-in font
LoadFallbackFont(e, bad) == LoadFallbackFonts(e, bad, FallbackFonts(e), 1)

\* "a if a else b" for the result of get_font_path
PathOr(a, b) == IF a # None /\ a # "" THEN a ELSE b

\* _load_font asking get_font_path first, and taking the argument as a file
\* only when the catalog has nothing for it
FontPathToLoad_CatalogFirst(e, cat, font_name_or_path, bold, italic) ==
  IF font_name_or_path = None \/ font_name_or_path = "" THEN None
  ELSE PathOr(GetFontPath(e, cat, font_name_or_path, bold, italic),
              font_name_or_path)

\* _load_font, steps 1 to 3: the file or name handed to ImageFont.truetype;
\* None when there is nothing to load
FontPathToLoad(e, cat, font_name_or_path, bold, italic) ==
  IF font_name_or_path = None \/ font_name_or_path = "" THEN None
  ELSE IF Exists(e, font_name_or_path) THEN font_name_or_path
  ELSE PathOr(GetFontPath(e, cat, font_name_or_path, bold, italic),
              font_name_or_path)

\* _load_font, steps 4 to 6
LoadFontPath(e, bad, font_path) ==
  FontOr(IF font_path # None THEN Truetype(e, bad, font_path) ELSE NoFont,
         LoadFallbackFont(e, bad))

\* WatermarkProcessor._load_font, with the catalog get_font_path reads
LoadFont(e, bad, cat, font_name_or_path, bold, italic) ==
  LoadFontPath(e, bad, FontPathToLoad(e, cat, font_name_or_path, bold, italic))

\* _needs_simulated_effect: chinese_font_files
ChineseFontFiles == <<"msyh", "simsun", "simhei", "stfang", "stkai", "stsong">>

\* _needs_simulated_effect, lines 201-212, given font_path.lower()
NeedsSimulation(font_name_lower, bold, italic) ==
  /\ AnyIn(ChineseFontFiles, font_name_lower)
  /\ \/ italic
     \/ /\ bold
        /\ ~Contains(font_name_lower, "bd")
        /\ ~Contains(font_name_lower, "bold")

\* WatermarkProcessor._needs_simulated_effect
NeedsSimulatedEffect(font, bold, italic) ==
  IF font.path = "" THEN TRUE
  ELSE NeedsSimulation(Lower(font.path), bold, italic)

(***************************************************************************)
(*                           THE TEXT LAYER                                *)
(* The text is known by its bounding box: `plain` is the box               *)
(* <<left, top, right, bottom>> that ImageDraw.textbbox((0, 0), text,      *)
(* font) reports, the extent of the glyphs drawn at (0, 0).                *)
(***************************************************************************)

Abs(n) == IF n < 0 THEN -n ELSE n

\* ImageDraw.textbbox((0, 0), text, font=font, stroke_width=stroke_width):
\* the stroke widens the box on every side
TextBbox(plain, stroke_width) ==
  <<plain[1] - stroke_width, plain[2] - stroke_width,
    plain[3] + stroke_width, plain[4] + stroke_width>>

\* create_text_watermark, lines 124-142: the canvas and where the text goes
TextCanvas(plain, stroke_width, shadow, shadow_offset) ==
  LET bbox == TextBbox(plain, stroke_width)
      text_width == bbox[3] - bbox[1]
      text_height == bbox[4] - bbox[2]
      margin == IF shadow
                  THEN Max(Abs(shadow_offset[1]), Abs(shadow_offset[2]))
                       + stroke_width
                  ELSE stroke_width
  IN [size |-> <<text_width + margin * 2, text_height + margin * 2>>,
      text_size |-> <<text_width, text_height>>,
      margin |-> margin,
      text_at |-> <<margin - bbox[1], margin - bbox[2]>>]

\* draw.text(xy, ..., stroke_width): the extent of what is drawn,
\* <<left, top, right, bottom>>
DrawText(xy, plain, stroke_width) ==
  LET bbox == TextBbox(plain, stroke_width)
  IN <<xy[1] + bbox[1], xy[2] + bbox[2],
       xy[1] + bbox[3], xy[2] + bbox[4]>>

\* _draw_simulated_text, "elif simulate_bold": the text drawn at x and x + 1
DrawSimulatedBold(xy, plain, stroke_width) ==
  LET ink == DrawText(xy, plain, stroke_width)
  IN [kind |-> "bold", at |-> xy,
      ink |-> <<ink[1], ink[2], ink[3] + 1, ink[4]>>]

\* the temporary image allocated without the width of the text
DrawSimulatedItalic_MarginsOnly(main_size, xy, plain, stroke_width, simulate_bold) ==
  LET text_width == plain[3] - plain[1]
      text_height == plain[4] - plain[2]
      shear_offset == (text_height * 2) \div 10
      margin_left == Abs(shear_offset) + 5
      margin_right == shear_offset + 5
      temp_width == margin_left + margin_right
                    + (IF simulate_bold THEN 2 ELSE 0)
      temp_height == text_height + 10
      paste_x == Max(0, xy[1]
                        - (margin_left * (IF simulate_bold THEN 9 ELSE 7)) \div 10)
      paste_y == Max(0, xy[2] - (IF simulate_bold THEN 7 ELSE 3))
      actual_width == Min(temp_width, main_size[1] - paste_x)
      actual_height == Min(temp_height, main_size[2] - paste_y)
  IN [kind |-> IF simulate_bold THEN "bold_italic" ELSE "italic",
      at |-> xy,
      text_size |-> <<text_width, text_height>>,
      shear_offset |-> shear_offset,
      temp_size |-> <<temp_width, temp_height>>,
      ink_rows |-> <<5 - stroke_width, 5 + text_height + stroke_width>>,
      paste |-> <<paste_x, paste_y>>,
      actual_size |-> <<actual_width, actual_height>>,
      composited |-> actual_width > 0 /\ actual_height > 0,
      cropped |-> ~(actual_width = temp_width /\ actual_height = temp_height)]

\* _draw_simulated_text, the two branches that shear: the temporary image,
\* where it is pasted and how much of it the main image takes.  int(f * n)
\* is n * 2 \div 10 for f = 0.2, and n * 7 \div 10 (n * 9 \div 10) for
\* f = 0.7 (0.9) while n < 90.
DrawSimulatedItalic(main_size, xy, plain, stroke_width, simulate_bold) ==
  LET text_width == plain[3] - plain[1]
      text_height == plain[4] - plain[2]
      shear_offset == (text_height * 2) \div 10
      margin_left == Abs(shear_offset) + 5
      margin_right == shear_offset + 5
      temp_width == text_width + margin_left + margin_right
                    + (IF simulate_bold THEN 2 ELSE 0)
      temp_height == text_height + 10
      paste_x == Max(0, xy[1]
                        - (margin_left * (IF simulate_bold THEN 9 ELSE 7)) \div 10)
      paste_y == Max(0, xy[2] - (IF simulate_bold THEN 7 ELSE 3))
      actual_width == Min(temp_width, main_size[1] - paste_x)
      actual_height == Min(temp_height, main_size[2] - paste_y)
  IN [kind |-> IF simulate_bold THEN "bold_italic" ELSE "italic",
      at |-> xy,
      text_size |-> <<text_width, text_height>>,
      shear_offset |-> shear_offset,
      temp_size |-> <<temp_width, temp_height>>,
      \* the rows of the temporary image the text is drawn on (text_y is
      \* 5 - bbox[1]); the shear moves pixels along their row only
      ink_rows |-> <<5 - stroke_width, 5 + text_height + stroke_width>>,
      paste |-> <<paste_x, paste_y>>,
      actual_size |-> <<actual_width, actual_height>>,
      composited |-> actual_width > 0 /\ actual_height > 0,
      cropped |-> ~(actual_width = temp_width /\ actual_height = temp_height)]

\* WatermarkProcessor._draw_text_with_effects, given the two decisions
DrawTextWithEffects(main_size, xy, plain, stroke_width, needs) ==
  IF needs[2]
    THEN DrawSimulatedItalic(main_size, xy, plain, stroke_width, needs[1])
  ELSE IF needs[1]
    THEN DrawSimulatedBold(xy, plain, stroke_width)
  ELSE [kind |-> "text", at |-> xy,
        ink |-> DrawText(xy, plain, stroke_width)]

\* create_text_watermark, lines 144-153: the shadow, if any, then the text
DrawWatermark(canvas, plain, stroke_width, shadow, shadow_offset, needs) ==
  (IF shadow
     THEN << DrawTextWithEffects(canvas.size,
               <<canvas.text_at[1] + shadow_offset[1],
                 canvas.text_at[2] + shadow_offset[2]>>,
               plain, stroke_width, needs) >>
     ELSE << >>)
  \o << DrawTextWithEffects(canvas.size, canvas.text_at, plain, stroke_width,
                            needs) >>

(***************************************************************************)
(*                  IDLE VALUES OF THE FONT VARIABLES                      *)
(***************************************************************************)

\* _font_mapper = None
NoMapper == [id |-> 0, catalog |-> EmptyCatalog]

NoRequest == [font_name |-> None, bold |-> FALSE, italic |-> FALSE]

NoLayer == [size |-> <<0, 0>>, text_size |-> <<0, 0>>, margin |-> 0,
            text_at |-> <<0, 0>>]

NoEnv == [system |-> "Linux", registry_ok |-> FALSE, registry |-> <<>>,
          win_files |-> {}, scan_dirs |-> <<>>]

NumThreads == 2

Threads == 1..NumThreads

MapperIdle ==
  /\ env = NoEnv
  /\ corrupt = {}
  /\ font_mapper = NoMapper
  /\ builds = 0

ThreadIdle ==
  /\ tpc = [t \in Threads |-> "done"]
  /\ tlocal = [t \in Threads |-> NoMapper]
  /\ tret = [t \in Threads |-> NoMapper]

\* no image object
NoImage == 0

ImageIdle ==
  /\ heap = <<>>
  /\ base_image = NoImage
  /\ watermark = NoImage
  /\ apply_args = [position |-> <<0, 0>>, opacity |-> 100]
  /\ returned_image = NoImage
  /\ ipc = "idle"

NoCall == [fn |-> "none", font_name |-> "", bold |-> FALSE, italic |-> FALSE]

\* the value a method returned: a name or path (or None), a truth value, a
\* list of names, or <<family_name, is_bold, is_italic>>, by the method
NoResult == [value |-> None, flag |-> FALSE, names |-> <<>>,
             parsed |-> <<"", FALSE, FALSE>>]

ResolveIdle ==
  /\ call = NoCall
  /\ call_result = NoResult

\* no call of the later sections is under way
DrawIdle ==
  /\ draw_call = [plain |-> <<0, 0, 0, 0>>, needs |-> <<FALSE, FALSE>>,
                  fails |-> {}, layer |-> NoLayer]
  /\ draw_result = [ops |-> <<>>, raised |-> FALSE]
  /\ dpc = "idle"

\* no batch run is under way
BatchIdle ==
  /\ batch_call = [kind |-> "none", items |-> <<>>, callback |-> FALSE,
                   raises_at |-> 0]
  /\ batch_run = [i |-> 0, attempted |-> <<>>, callbacks |-> <<>>,
                  success |-> 0, failed |-> 0, total |-> 0]
  /\ bpc = "idle"

\* no export is under way
ExportIdle ==
  /\ export_call = [kind |-> "none", items |-> <<>>]
  /\ export_run = [i |-> 0, started |-> <<>>, completed |-> <<>>,
                   exported |-> <<>>, success_count |-> 0,
                   failed_count |-> 0, cancel_var |-> FALSE,
                   requested |-> [i |-> 0, exported |-> <<>>,
                                  asked |-> FALSE]]
  /\ xpc = "idle"

\* no render call with a rotation is under way
RotateIdle ==
  /\ rot_call = [image_size |-> <<1, 1>>, watermark_size |-> <<1, 1>>,
                 rotation |-> 0, raises |-> FALSE,
                 position_config |-> [position |-> "bottom_right",
                                      h_margin |-> 20, v_margin |-> 20,
                                      custom_x |-> 20, custom_y |-> 20]]
  /\ rot_layer = [size |-> <<1, 1>>, rotated_by |-> 0]
  /\ rot_placed = [position |-> NoPos, bounds |-> NoPos, pasted |-> NoPos]
  /\ qpc = "idle"

\* no text is being painted
PaintIdle ==
  /\ paint_call = [renderer |-> "none", xy |-> <<0, 0>>, shadow |-> FALSE,
                   shadow_offset |-> <<2, 2>>, stroke_width |-> 0,
                   needs |-> <<FALSE, FALSE>>]
  /\ passes = <<>>
  /\ ppc = "idle"

\* no WatermarkConfig is being constructed
ConfigIdle ==
  /\ cfg_call = [font_size |-> 32, opacity |-> 255, margin |-> 10]
  /\ cfg_result = [made |-> FALSE,
                   config |-> [font_size |-> 0, opacity |-> 0, margin |-> 0],
                   raised |-> ""]
  /\ cpc = "idle"

\* no image is being processed
SingleIdle ==
  /\ single_call = [load |-> "ok", date |-> "date", render |-> "ok",
                    save |-> "ok", existed |-> FALSE, removes |-> FALSE]
  /\ single_run = [out |-> "absent", returned |-> "none"]
  /\ spc = "idle"

\* the FileManager has just been made
FilesIdle ==
  /\ image_files = <<>>
  /\ fm_last = [op |-> "none", arg |-> <<>>, index |-> 0, returned |-> "None",
                count |-> 0, before |-> <<>>]

\* the main window has just been made
WindowIdle ==
  /\ shown_files = <<>>
  /\ current_image_index = 0 - 1
  /\ current_image = 0
  /\ mw_last = [op |-> "none", index |-> 0, removed |-> FALSE,
                before_index |-> 0 - 1, before_files |-> <<>>]

\* no image has been exported
SaveIdle ==
  /\ out_dir = {}
  /\ xp_calls = 0
  /\ xp_last = [output_path |-> [stem |-> "a", counters |-> <<>>, suffix |-> ""],
                format_type |-> "none", returned |-> FALSE,
                saved_to |-> [stem |-> "a", counters |-> <<>>, suffix |-> ""],
                before |-> {}]

\* the machines of the application are idle, but for the one named
AppIdleBut(machine) ==
  /\ IF machine = "batch" THEN TRUE ELSE BatchIdle
  /\ IF machine = "export" THEN TRUE ELSE ExportIdle
  /\ IF machine = "rotate" THEN TRUE ELSE RotateIdle
  /\ IF machine = "paint" THEN TRUE ELSE PaintIdle
  /\ IF machine = "config" THEN TRUE ELSE ConfigIdle
  /\ IF machine = "single" THEN TRUE ELSE SingleIdle
  /\ IF machine = "files" THEN TRUE ELSE FilesIdle
  /\ IF machine = "window" THEN TRUE ELSE WindowIdle
  /\ IF machine = "save" THEN TRUE ELSE SaveIdle

AppIdle == AppIdleBut("none")

OtherIdle == ImageIdle /\ ResolveIdle /\ DrawIdle /\ AppIdle

FontIdle ==
  /\ request = NoRequest
  /\ resolved_family = None
  /\ resolved_path = None
  /\ loaded_font = NoFont
  /\ needs_simulated = <<FALSE, FALSE>>
  /\ text_layer = NoLayer
  /\ drawn = <<>>
  /\ fpc = "idle"

(***************************************************************************)
(*                      PLACEMENT AND COMPOSITING                          *)
(***************************************************************************)

\* Largest canvas side enumerated (besides the documented scenario sizes).
MaxCanvas == 4
\* Largest layer side enumerated; larger than MaxCanvas so that a layer can
\* exceed the canvas.
MaxLayer == 5
\* Largest margin enumerated; margins up to MaxMargin exceed the free space
\* of the small canvases.
MaxMargin == 2
\* Custom coordinates range over -MaxCustom .. MaxCustom + MaxCanvas.
MaxCustom == 2

\* The nine preset anchors of the GUI (keys of position_map).
Anchors == {"top_left", "top_center", "top_right",
            "middle_left", "center", "middle_right",
            "bottom_left", "bottom_center", "bottom_right"}

\* WatermarkPosition enum values of the command-line renderer.
WatermarkPosition == {"top-left", "top-center", "top-right",
                      "left-center", "center", "right-center",
                      "bottom-left", "bottom-center", "bottom-right"}

\* The enum member that names the same anchor as a GUI position key.
EnumOf(anchor) ==
  CASE anchor = "top_left"      -> "top-left"
    [] anchor = "top_center"    -> "top-center"
    [] anchor = "top_right"     -> "top-right"
    [] anchor = "middle_left"   -> "left-center"
    [] anchor = "center"        -> "center"
    [] anchor = "middle_right"  -> "right-center"
    [] anchor = "bottom_left"   -> "bottom-left"
    [] anchor = "bottom_center" -> "bottom-center"
    [] anchor = "bottom_right"  -> "bottom-right"

\* PositionMap with the two margins exchanged.
PositionMap_SwappedMargins(img, wm, h_margin, v_margin) ==
  LET img_width == img[1]  img_height == img[2]
      wm_width == wm[1]    wm_height == wm[2]
  IN [a \in Anchors |->
       CASE a = "top_left"      -> <<v_margin, h_margin>>
         [] a = "top_center"    -> <<(img_width - wm_width) \div 2, h_margin>>
         [] a = "top_right"     -> <<img_width - wm_width - v_margin, h_margin>>
         [] a = "middle_left"   -> <<v_margin, (img_height - wm_height) \div 2>>
         [] a = "center"        -> <<(img_width - wm_width) \div 2,
                                     (img_height - wm_height) \div 2>>
         [] a = "middle_right"  -> <<img_width - wm_width - v_margin,
                                     (img_height - wm_height) \div 2>>
         [] a = "bottom_left"   -> <<v_margin, img_height - wm_height - h_margin>>
         [] a = "bottom_center" -> <<(img_width - wm_width) \div 2,
                                     img_height - wm_height - h_margin>>
         [] a = "bottom_right"  -> <<img_width - wm_width - v_margin,
                                     img_height - wm_height - h_margin>>]

\* MainWindow._calculate_watermark_position: the position_map dictionary.
PositionMap(img, wm, h_margin, v_margin) ==
  LET img_width == img[1]  img_height == img[2]
      wm_width == wm[1]    wm_height == wm[2]
  IN [a \in Anchors |->
       CASE a = "top_left"      -> <<h_margin, v_margin>>
         [] a = "top_center"    -> <<(img_width - wm_width) \div 2, v_margin>>
         [] a = "top_right"     -> <<img_width - wm_width - h_margin, v_margin>>
         [] a = "middle_left"   -> <<h_margin, (img_height - wm_height) \div 2>>
         [] a = "center"        -> <<(img_width - wm_width) \div 2,
                                     (img_height - wm_height) \div 2>>
         [] a = "middle_right"  -> <<img_width - wm_width - h_margin,
                                     (img_height - wm_height) \div 2>>
         [] a = "bottom_left"   -> <<h_margin, img_height - wm_height - v_margin>>
         [] a = "bottom_center" -> <<(img_width - wm_width) \div 2,
                                     img_height - wm_height - v_margin>>
         [] a = "bottom_right"  -> <<img_width - wm_width - h_margin,
                                     img_height - wm_height - v_margin>>]

\* MainWindow._calculate_watermark_position.
CalculateWatermarkPosition(img, wm, cfg) ==
  IF cfg.position = "custom"
    THEN <<cfg.custom_x, cfg.custom_y>>
    ELSE LET position_map == PositionMap(img, wm, cfg.h_margin, cfg.v_margin)
         IN IF cfg.position \in DOMAIN position_map
              THEN position_map[cfg.position]
              ELSE position_map["bottom_right"]

\* get_preset_positions with the centre of the canvas, instead of the
\* centre of the free space, as the centred coordinate.
GetPresetPositions_CanvasCentre(img, wm, margin) ==
  LET img_width == img[1]  img_height == img[2]
      wm_width == wm[1]    wm_height == wm[2]
  IN [a \in Anchors |->
       CASE a = "top_left"      -> <<margin, margin>>
         [] a = "top_center"    -> <<img_width \div 2, margin>>
         [] a = "top_right"     -> <<img_width - wm_width - margin, margin>>
         [] a = "middle_left"   -> <<margin, img_height \div 2>>
         [] a = "center"        -> <<img_width \div 2, img_height \div 2>>
         [] a = "middle_right"  -> <<img_width - wm_width - margin,
                                     img_height \div 2>>
         [] a = "bottom_left"   -> <<margin, img_height - wm_height - margin>>
         [] a = "bottom_center" -> <<img_width \div 2,
                                     img_height - wm_height - margin>>
         [] a = "bottom_right"  -> <<img_width - wm_width - margin,
                                     img_height - wm_height - margin>>]

\* WatermarkProcessor.get_preset_positions.
GetPresetPositions(img, wm, margin) ==
  LET img_width == img[1]  img_height == img[2]
      wm_width == wm[1]    wm_height == wm[2]
  IN [a \in Anchors |->
       CASE a = "top_left"      -> <<margin, margin>>
         [] a = "top_center"    -> <<(img_width - wm_width) \div 2, margin>>
         [] a = "top_right"     -> <<img_width - wm_width - margin, margin>>
         [] a = "middle_left"   -> <<margin, (img_height - wm_height) \div 2>>
         [] a = "center"        -> <<(img_width - wm_width) \div 2,
                                     (img_height - wm_height) \div 2>>
         [] a = "middle_right"  -> <<img_width - wm_width - margin,
                                     (img_height - wm_height) \div 2>>
         [] a = "bottom_left"   -> <<margin, img_height - wm_height - margin>>
         [] a = "bottom_center" -> <<(img_width - wm_width) \div 2,
                                     img_height - wm_height - margin>>
         [] a = "bottom_right"  -> <<img_width - wm_width - margin,
                                     img_height - wm_height - margin>>]

\* WatermarkRenderer._calculate_position, for config = [position, margin].
CalculatePosition(config, img, text_size) ==
  LET img_width == img[1]     img_height == img[2]
      text_width == text_size[1]  text_height == text_size[2]
      margin == config.margin
      position_map == [p \in WatermarkPosition |->
        CASE p = "top-left"      -> <<margin, margin>>
          [] p = "top-center"    -> <<(img_width - text_width) \div 2, margin>>
          [] p = "top-right"     -> <<img_width - text_width - margin, margin>>
          [] p = "left-center"   -> <<margin, (img_height - text_height) \div 2>>
          [] p = "center"        -> <<(img_width - text_width) \div 2,
                                      (img_height - text_height) \div 2>>
          [] p = "right-center"  -> <<img_width - text_width - margin,
                                      (img_height - text_height) \div 2>>
          [] p = "bottom-left"   -> <<margin, img_height - text_height - margin>>
          [] p = "bottom-center" -> <<(img_width - text_width) \div 2,
                                      img_height - text_height - margin>>
          [] p = "bottom-right"  -> <<img_width - text_width - margin,
                                      img_height - text_height - margin>>]
  IN IF config.position \in DOMAIN position_map
       THEN position_map[config.position]
       ELSE position_map["bottom-right"]

\* apply_watermark without the adjustment of the position.
ClampPosition_None(pos, img, wm) == pos

\* WatermarkProcessor.apply_watermark: the paste position after the
\* adjustment "x = max(0, min(x, img_width - wm_width))" on both axes.
ClampPosition(pos, img, wm) ==
  <<Max(0, Min(pos[1], img[1] - wm[1])),
    Max(0, Min(pos[2], img[2] - wm[2]))>>

\* Image.paste(layer, (x, y), mask): the part of the canvas that is written,
\* <<x0, y0, x1, y1>> (half-open), the layer rectangle cut to the canvas.
PasteRegion(at, img, wm) ==
  <<Max(0, at[1]), Max(0, at[2]),
    Min(img[1], at[1] + wm[1]), Min(img[2], at[2] + wm[2])>>

CanvasSizes ==
  ((1..MaxCanvas) \X (1..MaxCanvas)) \cup {<<800, 600>>}

LayerSizes ==
  ((1..MaxLayer) \X (1..MaxLayer)) \cup {<<120, 40>>}

Margins == (0..MaxMargin) \cup {10}

\* Coordinates the custom anchor may hold: the spin boxes and the drag
\* handler give 0 and up, a loaded configuration or template any integer.
CustomCoords == (-MaxCustom .. MaxCanvas + MaxCustom) \cup {-20}

PositionConfigs ==
  [position: Anchors, h_margin: Margins, v_margin: Margins,
   custom_x: {20}, custom_y: {20}]
  \cup
  [position: {"custom"}, h_margin: {20}, v_margin: {20},
   custom_x: CustomCoords, custom_y: CustomCoords]

NoPositions == [a \in Anchors |-> NoPos]

PlaceIdle ==
  /\ image_size = <<1, 1>>
  /\ watermark_size = <<1, 1>>
  /\ position_config = [position |-> "bottom_right", h_margin |-> 20,
                        v_margin |-> 20, custom_x |-> 20, custom_y |-> 20]
  /\ position = NoPos
  /\ watermark_bounds = NoPos
  /\ paste_at = NoPos
  /\ pasted = NoPos
  /\ preset_positions = NoPositions
  /\ cli_position = NoPos
  /\ rpc = "idle"

\* A render call that has produced its layer (MainWindow line 587).
InitPlace ==
  /\ image_size \in CanvasSizes
  /\ watermark_size \in LayerSizes
  /\ (image_size = <<800, 600>>) <=> (watermark_size = <<120, 40>>)
  /\ position_config \in PositionConfigs
  /\ position = NoPos
  /\ watermark_bounds = NoPos
  /\ paste_at = NoPos
  /\ pasted = NoPos
  /\ preset_positions = NoPositions
  /\ cli_position = NoPos
  /\ rpc = "watermark"
  /\ MapperIdle /\ ThreadIdle /\ FontIdle /\ OtherIdle

\* MainWindow._apply_watermark_to_image, lines 595-602: compute the position
\* and record the watermark bounds.
ComputePosition ==
  /\ rpc = "watermark"
  /\ UNCHANGED <<mapperVars, threadVars, fontVars, otherVars>>
  /\ position' = CalculateWatermarkPosition(image_size, watermark_size,
                                            position_config)
  /\ watermark_bounds' = <<position'[1], position'[2],
                           watermark_size[1], watermark_size[2]>>
  /\ rpc' = "positioned"
  /\ UNCHANGED <<image_size, watermark_size, position_config, paste_at,
                 pasted, preset_positions, cli_position>>

\* WatermarkProcessor.apply_watermark called with the computed position.
ApplyWatermark ==
  /\ rpc = "positioned"
  /\ UNCHANGED <<mapperVars, threadVars, fontVars, otherVars>>
  /\ paste_at' = ClampPosition(position, image_size, watermark_size)
  /\ pasted' = PasteRegion(paste_at', image_size, watermark_size)
  /\ rpc' = "applied"
  /\ UNCHANGED <<image_size, watermark_size, position_config, position,
                 watermark_bounds, preset_positions, cli_position>>

\* WatermarkProcessor.get_preset_positions for the same sizes, with the
\* horizontal margin as its single margin.
PresetPositions ==
  /\ rpc = "applied"
  /\ UNCHANGED <<mapperVars, threadVars, fontVars, otherVars>>
  /\ preset_positions = NoPositions
  /\ preset_positions' = GetPresetPositions(image_size, watermark_size,
                                            position_config.h_margin)
  /\ UNCHANGED <<image_size, watermark_size, position_config, position,
                 watermark_bounds, paste_at, pasted, cli_position, rpc>>

\* WatermarkRenderer._calculate_position for the same sizes, configured with
\* the same anchor and the horizontal margin.
RendererPosition ==
  /\ rpc = "applied"
  /\ UNCHANGED <<mapperVars, threadVars, fontVars, otherVars>>
  /\ cli_position = NoPos
  /\ position_config.position \in Anchors
  /\ cli_position' = CalculatePosition(
        [position |-> EnumOf(position_config.position),
         margin |-> position_config.h_margin],
        image_size, watermark_size)
  /\ UNCHANGED <<image_size, watermark_size, position_config, position,
                 watermark_bounds, paste_at, pasted, preset_positions, rpc>>

NextPlace ==
  \/ ComputePosition
  \/ ApplyWatermark
  \/ PresetPositions
  \/ RendererPosition

SpecPlace == InitPlace /\ [][NextPlace]_vars

(***************************************************************************)
(*                        IMAGES AND COMPOSITING                           *)
(* An image object is a cell of `heap`, known by its index: two variables  *)
(* that hold the same index name the same object, and a method that works  *)
(* in place rewrites the cell.  An image is [mode, size, px]; px maps each *)
(* pixel <<x, y>> to <<c, a>>, where c stands for each colour band (the    *)
(* operations used here treat the colour bands alike) and a is the alpha   *)
(* band, 255 in a mode without one.                                        *)
(***************************************************************************)

\* Largest side of an enumerated canvas image, in pixels.
MaxImageSide == 2

Pixels(size) == (0..(size[1] - 1)) \X (0..(size[2] - 1))

\* Pillow's DIV255 and BLEND (libImaging/Paste.c).
Div255(a) ==
  LET tmp == a + 128 IN ((tmp \div 256) + tmp) \div 256

Blend(mask, in1, in2) == Div255(in1 * (255 - mask) + in2 * mask)

\* A new object holding img: [heap, id].
NewImage(h, img) == [heap |-> Append(h, img), id |-> Len(h) + 1]

\* Image.copy() that hands back the image itself.
ImageCopy_SameObject(h, id) == [heap |-> h, id |-> id]

\* Image.copy(): a new object with the same mode, size and pixels.
ImageCopy(h, id) == NewImage(h, h[id])

\* Image.convert('RGBA') of an RGB, L or RGBA image, as a value.
ConvertedRGBA(img) ==
  [mode |-> "RGBA", size |-> img.size,
   px |-> [p \in Pixels(img.size) |->
             <<img.px[p][1], IF img.mode = "RGBA" THEN img.px[p][2] ELSE 255>>]]

\* apply_watermark, lines 452-453, with no conversion.
EnsureRGBA_KeepMode(h, id) == [heap |-> h, id |-> id]

\* apply_watermark, lines 452-453: result = result.convert('RGBA') when the
\* mode is not RGBA; convert returns a new object.
EnsureRGBA(h, id) ==
  IF h[id].mode # "RGBA" THEN NewImage(h, ConvertedRGBA(h[id]))
  ELSE [heap |-> h, id |-> id]

\* int(p * opacity), opacity given in hundredths (0, 50 and 100 are exact
\* in floating point).
ScaleAlpha(p, opacity) == (p * opacity) \div 100

\* apply_watermark, lines 457-460, in place on the layer copy:
\*   alpha = watermark_copy.split()[-1]      (the last band)
\*   alpha = alpha.point(lambda p: int(p * opacity))
\*   watermark_copy.putalpha(alpha)          (an RGB image becomes RGBA)
ApplyOpacity(h, id, opacity) ==
  IF opacity < 100
  THEN [h EXCEPT ![id] =
          [mode |-> "RGBA", size |-> h[id].size,
           px |-> [p \in Pixels(h[id].size) |->
                     <<h[id].px[p][1],
                       ScaleAlpha(IF h[id].mode = "RGBA" THEN h[id].px[p][2]
                                  ELSE h[id].px[p][1], opacity)>>]]]
  ELSE h

\* Image.paste(im, box, mask) accepts a mask with an alpha band ("RGBA") or
\* a single band; an RGB mask raises ValueError("bad transparency mask").
GoodMask(img) == img.mode \in {"RGBA", "L"}

\* result.paste(watermark_copy, (x, y), watermark_copy), in place on dst:
\* under the layer, every band is blended with the layer's alpha as mask;
\* the part of the layer outside dst is dropped.
Paste(h, dst, src, at) ==
  [h EXCEPT ![dst].px =
     [p \in Pixels(h[dst].size) |->
        IF /\ at[1] <= p[1] /\ p[1] < at[1] + h[src].size[1]
           /\ at[2] <= p[2] /\ p[2] < at[2] + h[src].size[2]
        THEN <<Blend(h[src].px[<<p[1] - at[1], p[2] - at[2]>>][2],
                     h[dst].px[p][1],
                     h[src].px[<<p[1] - at[1], p[2] - at[2]>>][1]),
               Blend(h[src].px[<<p[1] - at[1], p[2] - at[2]>>][2],
                     h[dst].px[p][2],
                     h[src].px[<<p[1] - at[1], p[2] - at[2]>>][2])>>
        ELSE h[dst].px[p]]]

\* apply_watermark, lines 463-475, given the result and the layer copy: clamp
\* the position, paste, return the result; a paste that raises is caught by
\* the handler of lines 477-479, which returns base_image.
PasteAndReturn(h, result_id, copy_id, base_image_id, pos) ==
  IF GoodMask(h[copy_id])
  THEN [heap |-> Paste(h, result_id, copy_id,
                       ClampPosition(pos, h[result_id].size, h[copy_id].size)),
        returned |-> result_id, raised |-> FALSE]
  ELSE [heap |-> h, returned |-> base_image_id, raised |-> TRUE]

\* apply_watermark, lines 457-460, on the layer copy w = [heap, id]
ScaledLayer(w, result_id, opacity) ==
  [heap |-> ApplyOpacity(w.heap, w.id, opacity),
   id |-> result_id, copy_id |-> w.id]

\* apply_watermark, lines 456-460: watermark_copy = watermark.copy(), then
\* its alpha scaled; res = [heap, id] is the result so far
CopyLayer(res, watermark_id, opacity) ==
  ScaledLayer(ImageCopy(res.heap, watermark_id), res.id, opacity)

\* apply_watermark, lines 452-453, on the canvas copy c = [heap, id]
EnsureCopyRGBA(c) == EnsureRGBA(c.heap, c.id)

ApplyToCopies(st, base_image_id, pos) ==
  PasteAndReturn(st.heap, st.id, st.copy_id, base_image_id, pos)

\* WatermarkProcessor.apply_watermark(base_image, watermark, position,
\* opacity): [heap, returned, raised]
ApplyWatermarkTo(h, base_image_id, watermark_id, pos, opacity) ==
  ApplyToCopies(
    CopyLayer(EnsureCopyRGBA(ImageCopy(h, base_image_id)),
              watermark_id, opacity),
    base_image_id, pos)

\* ImageDraw text drawing on the image, in place: the pixels of the text box
\* placed at `at` take the fill (its alpha only in a mode with an alpha
\* band).  The box stands for the glyphs' ink.
DrawTextOn(h, id, at, text_size, fill) ==
  [h EXCEPT ![id].px =
     [p \in Pixels(h[id].size) |->
        IF /\ at[1] <= p[1] /\ p[1] < at[1] + text_size[1]
           /\ at[2] <= p[2] /\ p[2] < at[2] + text_size[2]
        THEN <<fill[1], IF h[id].mode = "RGBA" THEN fill[2] ELSE 255>>
        ELSE h[id].px[p]]]

\* render_watermark, lines 118-130: the outline, one draw per offset
\* (adj_x, adj_y) other than (0, 0); together they cover the text box grown
\* by outline_width on every side.
DrawOutline(h, id, at, text_size, outline_width, outline_color) ==
  IF outline_width > 0
  THEN DrawTextOn(h, id, <<at[1] - outline_width, at[2] - outline_width>>,
                  <<text_size[1] + 2 * outline_width,
                    text_size[2] + 2 * outline_width>>, outline_color)
  ELSE h

\* render_watermark, lines 98-137, on the copy c = [heap, id]
RenderOnCopy(c, config, text_size) ==
  [heap |-> DrawTextOn(
              DrawOutline(c.heap, c.id,
                          CalculatePosition(config, c.heap[c.id].size, text_size),
                          text_size, config.outline_width,
                          <<config.outline_color, 255>>),
              c.id, CalculatePosition(config, c.heap[c.id].size, text_size),
              text_size, <<config.color, config.opacity>>),
   returned |-> c.id, raised |-> FALSE]

\* WatermarkRenderer.render_watermark(image, text): [heap, returned, raised]
RenderWatermark(h, image_id, config, text_size) ==
  RenderOnCopy(ImageCopy(h, image_id), config, text_size)

\* ---- the images and arguments enumerated ----

CanvasImageSizes == (1..MaxImageSide) \X (1..MaxImageSide)

LayerImageSizes == (1..(MaxImageSide + 1)) \X (1..(MaxImageSide + 1))

\* A canvas whose pixels all differ; `faded` gives an RGBA canvas a varying
\* alpha band.
CanvasImage(mode, size, faded) ==
  [mode |-> mode, size |-> size,
   px |-> [p \in Pixels(size) |->
             <<10 + 30 * p[1] + 60 * p[2],
               IF mode = "RGBA" /\ faded THEN 100 + 20 * p[1] ELSE 255>>]]

CanvasImages ==
  {CanvasImage(mode, size, FALSE) :
     mode \in {"RGB", "RGBA", "L"}, size \in CanvasImageSizes}
  \cup {CanvasImage("RGBA", size, TRUE) : size \in CanvasImageSizes}

LayerAlpha(pattern, p) ==
  CASE pattern = "opaque" -> 255
    [] pattern = "clear"  -> 0
    [] pattern = "half"   -> 128
    [] pattern = "mixed"  -> IF (p[1] + p[2]) % 2 = 0 THEN 255 ELSE 0

\* A layer as create_text_watermark and load_image_watermark make it (RGBA),
\* and an RGB image passed as the layer.
LayerImage(mode, size, pattern) ==
  [mode |-> mode, size |-> size,
   px |-> [p \in Pixels(size) |->
             <<250 - 20 * p[1] - 50 * p[2],
               IF mode = "RGBA" THEN LayerAlpha(pattern, p) ELSE 255>>]]

LayerImages ==
  {LayerImage("RGBA", size, pattern) :
     size \in LayerImageSizes, pattern \in {"opaque", "clear", "half", "mixed"}}
  \cup {LayerImage("RGB", size, "opaque") : size \in LayerImageSizes}

ApplyPositions == {<<0, 0>>, <<1, 0>>, <<-1, 1>>, <<1, -2>>, <<3, 3>>}

\* opacity, in hundredths
Opacities == {0, 50, 100}

RendererConfigs ==
  [position: {"top-left", "center", "bottom-right"}, margin: {0, 1},
   outline_width: {0, 1}, outline_color: {0}, color: {255},
   opacity: {255, 128}]

RenderedTextSizes == {<<1, 1>>, <<2, 1>>, <<0, 0>>}

\* The caller holds a canvas image and a layer image.
InitImage ==
  /\ \E canvas \in CanvasImages, layer \in LayerImages :
       heap = <<canvas, layer>>
  /\ base_image = 1
  /\ watermark = 2
  /\ apply_args = [position |-> <<0, 0>>, opacity |-> 100]
  /\ returned_image = NoImage
  /\ ipc = "given"
  /\ MapperIdle /\ ThreadIdle /\ FontIdle /\ PlaceIdle /\ ResolveIdle
  /\ DrawIdle /\ AppIdle

\* One call of WatermarkProcessor.apply_watermark on the two images.
ApplyWatermarkCall ==
  /\ ipc = "given"
  /\ \E pos \in ApplyPositions, opacity \in Opacities :
       /\ apply_args' = [position |-> pos, opacity |-> opacity]
       /\ \E out \in {ApplyWatermarkTo(heap, base_image, watermark, pos, opacity)} :
            /\ heap' = out.heap
            /\ returned_image' = out.returned
            /\ ipc' = IF out.raised THEN "failed" ELSE "applied"
  /\ UNCHANGED <<base_image, watermark>>
  /\ UNCHANGED <<mapperVars, threadVars, fontVars, placeVars, resolveVars, drawVars, appVars>>

\* One call of WatermarkRenderer.render_watermark on the canvas image.
RenderWatermarkCall ==
  /\ ipc = "given"
  /\ \E config \in RendererConfigs, text_size \in RenderedTextSizes :
       \E out \in {RenderWatermark(heap, base_image, config, text_size)} :
         /\ heap' = out.heap
         /\ returned_image' = out.returned
         /\ ipc' = "rendered"
  /\ UNCHANGED <<base_image, watermark, apply_args>>
  /\ UNCHANGED <<mapperVars, threadVars, fontVars, placeVars, resolveVars, drawVars, appVars>>

NextImage ==
  \/ ApplyWatermarkCall
  \/ RenderWatermarkCall

SpecImage == InitImage /\ [][NextImage]_vars

(***************************************************************************)
(*                     THE MACHINES THE PROGRAM RUNS ON                    *)
(***************************************************************************)

ArialRegistry ==
  << <<"Arial (TrueType)", "arial.ttf">>,
     <<"Arial Bold (TrueType)", "arialbd.ttf">>,
     <<"Arial Italic (TrueType)", "ariali.ttf">>,
     <<"Arial Bold Italic (TrueType)", "arialbi.ttf">> >>

YaHeiRegistry ==
  << <<"Microsoft YaHei & Microsoft YaHei UI (TrueType)", "msyh.ttc">>,
     <<"Microsoft YaHei Bold & Microsoft YaHei UI Bold (TrueType)",
       "msyhbd.ttc">>,
     <<"Microsoft YaHei Light & Microsoft YaHei UI Light (TrueType)",
       "msyhl.ttc">> >>

SimHeiRegistry ==
  << <<"SimHei (TrueType)", "simhei.ttf">>,
     <<"SimHei Bold (TrueType)", "simheibd.ttf">> >>

\* os.path.expanduser("~/AppData/Local/Microsoft/Windows/Fonts/")
WindowsUserFontsDir == "C:\\Users\\u/AppData/Local/Microsoft/Windows/Fonts/"

\* a Windows machine whose registry values all name files that exist
WindowsEnv(registry, more_files, user_files) ==
  [system |-> "Windows", registry_ok |-> TRUE, registry |-> registry,
   win_files |-> { registry[i][2] : i \in 1..Len(registry) } \cup more_files,
   scan_dirs |-> IF user_files = <<>> THEN <<>>
                 ELSE << [root |-> WindowsUserFontsDir, files |-> user_files] >>]

\* a Linux or macOS machine with the given font directories
ScannedEnv(system, scan_dirs) ==
  [system |-> system, registry_ok |-> FALSE, registry |-> <<>>,
   win_files |-> {}, scan_dirs |-> scan_dirs]

DejaVuDir == "/usr/share/fonts/truetype/dejavu"

WindowsEnvironments ==
  { WindowsEnv(ArialRegistry \o YaHeiRegistry \o SimHeiRegistry, {}, <<>>),
    WindowsEnv(<<ArialRegistry[4], ArialRegistry[1]>>, {}, <<>>),
    WindowsEnv(<<YaHeiRegistry[3], YaHeiRegistry[2], ArialRegistry[2]>>, {},
               <<>>),
    WindowsEnv(<<ArialRegistry[3], SimHeiRegistry[2]>>, {}, <<"Vera.ttf">>),
    [WindowsEnv(<<>>, {"msyh.ttc", "arial.ttf"}, <<"Vera.ttf">>)
       EXCEPT !.registry_ok = FALSE] }

LinuxEnvironments ==
  { ScannedEnv("Linux",
      << [root |-> DejaVuDir,
          files |-> <<"DejaVuSans.ttf", "DejaVuSans-Bold.ttf",
                      "DejaVuSans-Oblique.ttf",
                      "DejaVuSans-BoldOblique.ttf">>] >>),
    ScannedEnv("Linux",
      << [root |-> DejaVuDir, files |-> <<"DejaVuSans.ttf", "README.txt">>],
         [root |-> "/home/u/.fonts/",
          files |-> <<"simhei.ttf", "simheibd.ttf">>] >>),
    ScannedEnv("Linux",
      << [root |-> DejaVuDir,
          files |-> <<"DejaVuSans-BoldOblique.ttf",
                      "DejaVuSans-Oblique.ttf">>],
         [root |-> "/home/u/.fonts/", files |-> <<"simheibd.ttf">>] >>),
    ScannedEnv("Linux", <<>>),
    \* the walk of the system directory raises at once
    ScannedEnv("Linux",
      << [root |-> DejaVuDir,
          files |-> <<"DejaVuSans.ttf", "DejaVuSans-Bold.ttf">>,
          raises_after |-> 0] >>),
    \* it raises after the first file; the user directory is read
    ScannedEnv("Linux",
      << [root |-> DejaVuDir,
          files |-> <<"DejaVuSans-Bold.ttf", "DejaVuSans.ttf">>,
          raises_after |-> 1],
         [root |-> "/home/u/.fonts/", files |-> <<"Vera.ttf">>] >>) }

MacosEnvironments ==
  { ScannedEnv("Darwin",
      << [root |-> "/System/Library/Fonts/",
          files |-> <<"Helvetica.ttc", "STHeiti Light.ttc">>],
         [root |-> "/Library/Fonts/",
          files |-> <<"Arial.ttf", "Arial Bold.ttf", "Arial Italic.ttf",
                      "Arial Bold Italic.ttf">>] >>),
    ScannedEnv("Darwin",
      << [root |-> "/Library/Fonts/",
          files |-> <<"Arial Bold Italic.ttf", "Arial.ttf">>] >>) }

Environments == WindowsEnvironments \cup LinuxEnvironments \cup MacosEnvironments

\* the paths of the font files of a machine
FontPaths(e) == { f[1] : f \in FontFiles(e) }

\* the paths of the platform's fallback fonts
FallbackPaths(e) ==
  { NormPath(e, FallbackFonts(e)[i]) : i \in 1..Len(FallbackFonts(e)) }

\* the sets of unloadable files considered: none, all, all but the
\* fallback fonts, the first fallback font only
CorruptSets(e) ==
  { {}, FontPaths(e), FontPaths(e) \ FallbackPaths(e),
    FontPaths(e) \cap {NormPath(e, FallbackFonts(e)[1])} }

\* the font names asked for
FontNames ==
  {"Arial", "DejaVuSans", "Microsoft YaHei", "1234", "SimHei", "STHeiti",
   "Vera", "NoSuchFont"}

\* what _load_font may be given: a name, nothing, or the path of a file
FontNamesOrPaths(e) ==
  FontNames \cup {None, ""}
  \cup (IF FontPaths(e) = {} THEN {}
        ELSE {CHOOSE p \in FontPaths(e) : \A q \in FontPaths(e) : Len(p) <= Len(q)})

(***************************************************************************)
(*                 THREADS CALLING get_font_mapper()                       *)
(* get_font_mapper reads the global, constructs a FontMapper when it read  *)
(* None, stores it in the global, reads the global again and returns it.   *)
(* Nothing orders these steps of one thread with those of another.         *)
(***************************************************************************)

\* FontMapper(): a new instance, its catalog built by _build_font_map
NewFontMapper(e, n) == [id |-> n + 1, catalog |-> BuildFontMap(e)]

InitMapper ==
  /\ env \in Environments
  /\ corrupt = {}
  /\ font_mapper = NoMapper
  /\ builds = 0
  /\ tpc = [t \in Threads |-> "start"]
  /\ tlocal = [t \in Threads |-> NoMapper]
  /\ tret = [t \in Threads |-> NoMapper]
  /\ FontIdle /\ PlaceIdle /\ OtherIdle

\* "if _font_mapper is None:"
CheckMapper(t) ==
  /\ tpc[t] = "start"
  /\ tpc' = [tpc EXCEPT ![t] = IF font_mapper = NoMapper THEN "construct"
                                                         ELSE "return"]
  /\ UNCHANGED <<mapperVars, tlocal, tret, fontVars, placeVars, otherVars>>

\* "FontMapper()"
ConstructMapper(t) ==
  /\ tpc[t] = "construct"
  /\ tlocal' = [tlocal EXCEPT ![t] = NewFontMapper(env, builds)]
  /\ builds' = builds + 1
  /\ tpc' = [tpc EXCEPT ![t] = "store"]
  /\ UNCHANGED <<env, corrupt, font_mapper, tret, fontVars, placeVars, otherVars>>

\* "_font_mapper = ..."
StoreMapper(t) ==
  /\ tpc[t] = "store"
  /\ font_mapper' = tlocal[t]
  /\ tpc' = [tpc EXCEPT ![t] = "return"]
  /\ UNCHANGED <<env, corrupt, builds, tlocal, tret, fontVars, placeVars, otherVars>>

\* "return _font_mapper"
ReturnMapper(t) ==
  /\ tpc[t] = "return"
  /\ tret' = [tret EXCEPT ![t] = font_mapper]
  /\ tpc' = [tpc EXCEPT ![t] = "done"]
  /\ UNCHANGED <<mapperVars, tlocal, fontVars, placeVars, otherVars>>

NextMapper ==
  \E t \in Threads :
    \/ CheckMapper(t)
    \/ ConstructMapper(t)
    \/ StoreMapper(t)
    \/ ReturnMapper(t)

SpecMapper == InitMapper /\ [][NextMapper]_vars

(***************************************************************************)
(*        CALLS OF get_font_path, _load_font AND create_text_watermark     *)
(* One call at a time; each call takes the catalog from get_font_mapper(), *)
(* which builds it when no call has done so before.                        *)
(***************************************************************************)

\* get_font_mapper(), called by one thread
GetFontMapper(e, mapper, n) ==
  IF mapper = NoMapper THEN NewFontMapper(e, n) ELSE mapper

MaxTextWidth == 6

MaxTextHeight == 12

MaxStroke == 1

\* the heights of text tried: one too low for a shear offset, one that has it
TextHeights == {4, MaxTextHeight}

\* the boxes ImageDraw.textbbox((0, 0), text, font) reports for the texts
PlainBoxes ==
  { <<l, t, l + MaxTextWidth, t + h>> : l \in {0, 1}, t \in {0, 2},
                                        h \in TextHeights }

\* shadow and shadow_offset: no shadow, the default (2, 2), and (-3, 1)
Shadows ==
  { <<FALSE, <<2, 2>> >>, <<TRUE, <<2, 2>> >>, <<TRUE, <<-3, 1>> >> }

InitFont ==
  /\ env \in Environments
  /\ corrupt \in CorruptSets(env)
  /\ font_mapper = NoMapper
  /\ builds = 0
  /\ ThreadIdle /\ FontIdle /\ PlaceIdle /\ OtherIdle

\* get_font_path(font_name, bold, italic) of font_mapper.py, lines 532-534
GetFontPathCall ==
  /\ fpc = "idle"
  /\ font_mapper' = GetFontMapper(env, font_mapper, builds)
  /\ builds' = font_mapper'.id
  /\ \E font_name \in FontNames \cup {""}, bold \in BOOLEAN, italic \in BOOLEAN :
       /\ request' = [font_name |-> font_name, bold |-> bold, italic |-> italic]
       /\ resolved_family' = FindFontFamily(font_mapper'.catalog, font_name)
       /\ resolved_path' = GetFamilyPath(env, font_mapper'.catalog, font_name,
                                         resolved_family', bold, italic)
  /\ loaded_font' = NoFont
  /\ needs_simulated' = <<FALSE, FALSE>>
  /\ text_layer' = NoLayer
  /\ drawn' = <<>>
  /\ fpc' = "mapped"
  /\ UNCHANGED <<env, corrupt, threadVars, placeVars, otherVars>>

\* _load_font reaches get_font_path (line 40) for a name that is no file
LooksUp(e, font_name_or_path) ==
  /\ font_name_or_path # None
  /\ font_name_or_path # ""
  /\ ~Exists(e, font_name_or_path)

\* WatermarkProcessor._load_font(font_name_or_path, font_size, bold, italic)
LoadFontCall ==
  LET built == GetFontMapper(env, font_mapper, builds)
  IN /\ fpc = "idle"
     /\ \E font_name \in FontNamesOrPaths(env), bold \in BOOLEAN,
           italic \in BOOLEAN :
          /\ request' = [font_name |-> font_name, bold |-> bold,
                         italic |-> italic]
          /\ font_mapper' = IF LooksUp(env, font_name) THEN built
                                                       ELSE font_mapper
          /\ resolved_path' = FontPathToLoad(env, font_mapper'.catalog,
                                             font_name, bold, italic)
          /\ loaded_font' = LoadFontPath(env, corrupt, resolved_path')
     /\ builds' = font_mapper'.id
     /\ resolved_family' = None
     /\ needs_simulated' = <<FALSE, FALSE>>
     /\ text_layer' = NoLayer
     /\ drawn' = <<>>
     /\ fpc' = "loaded"
     /\ UNCHANGED <<env, corrupt, threadVars, placeVars, otherVars>>

\* WatermarkProcessor.create_text_watermark(text, font_path, font_size, ...,
\* shadow, shadow_offset, ..., stroke_width, ..., bold, italic)
CreateTextWatermark ==
  LET built == GetFontMapper(env, font_mapper, builds)
  IN /\ fpc = "idle"
     /\ \E font_name \in FontNamesOrPaths(env), bold \in BOOLEAN,
           italic \in BOOLEAN :
          /\ request' = [font_name |-> font_name, bold |-> bold,
                         italic |-> italic]
          /\ font_mapper' = IF LooksUp(env, font_name) THEN built
                                                       ELSE font_mapper
          /\ resolved_path' = FontPathToLoad(env, font_mapper'.catalog,
                                             font_name, bold, italic)
          /\ loaded_font' = LoadFontPath(env, corrupt, resolved_path')
          /\ needs_simulated' =
               <<bold /\ NeedsSimulatedEffect(loaded_font', TRUE, FALSE),
                 italic /\ NeedsSimulatedEffect(loaded_font', FALSE, TRUE)>>
     /\ \E plain \in PlainBoxes, stroke_width \in 0..MaxStroke,
           shadow \in Shadows :
          /\ text_layer' = TextCanvas(plain, stroke_width, shadow[1], shadow[2])
          /\ drawn' = DrawWatermark(text_layer', plain, stroke_width,
                                    shadow[1], shadow[2], needs_simulated')
     /\ builds' = font_mapper'.id
     /\ resolved_family' = None
     /\ fpc' = "drawn"
     /\ UNCHANGED <<env, corrupt, threadVars, placeVars, otherVars>>

\* the call returns; the catalog stays
FinishCall ==
  /\ fpc \in {"mapped", "loaded", "drawn"}
  /\ request' = NoRequest
  /\ resolved_family' = None
  /\ resolved_path' = None
  /\ loaded_font' = NoFont
  /\ needs_simulated' = <<FALSE, FALSE>>
  /\ text_layer' = NoLayer
  /\ drawn' = <<>>
  /\ fpc' = "idle"
  /\ UNCHANGED <<mapperVars, threadVars, placeVars, otherVars>>

NextFont ==
  \/ GetFontPathCall
  \/ LoadFontCall
  \/ CreateTextWatermark
  \/ FinishCall

SpecFont == InitFont /\ [][NextFont]_vars



(***************************************************************************)
(*                  CALLS OF THE METHODS OF A FontMapper                   *)
(* A FontMapper has been constructed on the machine; its resolution        *)
(* methods are called one after the other, in any order, with any          *)
(* arguments: `call` holds the call under way until its result is taken.   *)
(***************************************************************************)

\* the keys of an ordered dictionary, as a set
KeySet(d) == { d[i][1] : i \in 1..Len(d) }

\* the names given to the methods: the names asked for, some aliases of
\* special_mappings, and every key of the three dictionaries
ResolveNames(cat) ==
  FontNames \cup {"", "msyh", "STHEITISC", "Sans", "arial"}
  \cup KeySet(cat.base_fonts) \cup KeySet(cat.font_variants)
  \cup KeySet(cat.font_map)

\* What a method does to the catalog with a memo: the name resolved is
\* entered in font_map.
CatalogAfter_Memoised(cat, font_name, found) ==
  IF found # None /\ ~Has(cat.font_map, font_name)
    THEN [cat EXCEPT !.font_map = Append(@, <<font_name, found>>)]
    ELSE cat

\* What get_font_path, _find_font_family, _is_chinese_font,
\* _handle_chinese_font_variant and get_available_fonts do to the catalog:
\* they test membership, index, iterate and call .get(), .keys() and
\* .items() on base_fonts, font_variants and font_map, and assign to none of
\* them (get_available_fonts returns a new list of the keys).
CatalogAfter(cat, font_name, found) == cat

\* FontMapper() has been constructed on the machine.
InitResolve ==
  /\ env \in Environments
  /\ corrupt = {}
  /\ font_mapper = NewFontMapper(env, 0)
  /\ builds = 1
  /\ call = NoCall
  /\ call_result = NoResult
  /\ ThreadIdle /\ FontIdle /\ PlaceIdle /\ ImageIdle /\ DrawIdle
  /\ AppIdle

\* font_mapper._find_font_family(font_name)
FindFontFamilyCall ==
  /\ call = NoCall
  /\ \E font_name \in ResolveNames(font_mapper.catalog) :
       /\ call' = [NoCall EXCEPT !.fn = "_find_font_family",
                                 !.font_name = font_name]
       /\ call_result' =
            [NoResult EXCEPT !.value = FindFontFamily(font_mapper.catalog,
                                                      font_name)]
       /\ font_mapper' =
            [font_mapper EXCEPT !.catalog =
               CatalogAfter(@, font_name, call_result'.value)]
  /\ UNCHANGED <<env, corrupt, builds>>
  /\ UNCHANGED <<threadVars, fontVars, placeVars, imageVars, drawVars, appVars>>

\* font_mapper.get_font_path(font_name, bold, italic)
GetFontPathMethodCall ==
  /\ call = NoCall
  /\ \E font_name \in ResolveNames(font_mapper.catalog),
        bold \in BOOLEAN, italic \in BOOLEAN :
       /\ call' = [fn |-> "get_font_path", font_name |-> font_name,
                   bold |-> bold, italic |-> italic]
       /\ call_result' =
            [NoResult EXCEPT !.value = GetFontPath(env, font_mapper.catalog,
                                                   font_name, bold, italic)]
       /\ font_mapper' =
            [font_mapper EXCEPT !.catalog =
               CatalogAfter(@, font_name, call_result'.value)]
  /\ UNCHANGED <<env, corrupt, builds>>
  /\ UNCHANGED <<threadVars, fontVars, placeVars, imageVars, drawVars, appVars>>

\* font_mapper._is_chinese_font(font_name)
IsChineseFontCall ==
  /\ call = NoCall
  /\ \E font_name \in ResolveNames(font_mapper.catalog) :
       /\ call' = [NoCall EXCEPT !.fn = "_is_chinese_font",
                                 !.font_name = font_name]
       /\ call_result' = [NoResult EXCEPT !.flag = IsChineseFont(font_name)]
       /\ font_mapper' =
            [font_mapper EXCEPT !.catalog = CatalogAfter(@, font_name, None)]
  /\ UNCHANGED <<env, corrupt, builds>>
  /\ UNCHANGED <<threadVars, fontVars, placeVars, imageVars, drawVars, appVars>>

\* font_mapper._handle_chinese_font_variant(family_name, variants, bold,
\* italic), with the variants of a family of the catalog
HandleChineseFontVariantCall ==
  /\ call = NoCall
  /\ \E family_name \in KeySet(font_mapper.catalog.font_variants),
        bold \in BOOLEAN, italic \in BOOLEAN :
       /\ call' = [fn |-> "_handle_chinese_font_variant",
                   font_name |-> family_name, bold |-> bold, italic |-> italic]
       /\ call_result' =
            [NoResult EXCEPT !.value =
               HandleChineseFontVariant(
                 env, family_name,
                 Get(font_mapper.catalog.font_variants, family_name),
                 bold, italic)]
       /\ font_mapper' =
            [font_mapper EXCEPT !.catalog =
               CatalogAfter(@, family_name, call_result'.value)]
  /\ UNCHANGED <<env, corrupt, builds>>
  /\ UNCHANGED <<threadVars, fontVars, placeVars, imageVars, drawVars, appVars>>

\* font_mapper.get_available_fonts()
GetAvailableFontsCall ==
  /\ call = NoCall
  /\ call' = [NoCall EXCEPT !.fn = "get_available_fonts"]
  /\ call_result' = [NoResult EXCEPT !.names = Keys(font_mapper.catalog.base_fonts)]
  /\ font_mapper' =
       [font_mapper EXCEPT !.catalog = CatalogAfter(@, "", None)]
  /\ UNCHANGED <<env, corrupt, builds>>
  /\ UNCHANGED <<threadVars, fontVars, placeVars, imageVars, drawVars, appVars>>

\* the names of fonts given to the parsers: registry value names and file
\* names without extension, with style words in several spellings
ParsedFamilies == {"Arial", "Segoe UI", "NotoSans"}

ParsedStyles ==
  {"", " Bold", " Italic", " Bold Italic", " Light", " Thin", " Light Italic",
   " Black", " Heavy", " Semibold", " Semilight", " bold", " BOLD", " light",
   " Black Light", " Bold Thin", "-Bold", "-Light", "-Thin", "-BoldItalic",
   "-ExtraBoldThin", " Oblique", " Bold (TrueType)", " Light (TrueType)"}

ParsedNames == { family \o style : family \in ParsedFamilies,
                                   style \in ParsedStyles }

\* font_mapper._parse_font_name(font_name)
ParseFontNameCall ==
  /\ call = NoCall
  /\ \E font_name \in ParsedNames :
       /\ call' = [NoCall EXCEPT !.fn = "_parse_font_name",
                                 !.font_name = font_name]
       /\ call_result' = [NoResult EXCEPT !.parsed = ParseFontName(font_name)]
       /\ font_mapper' =
            [font_mapper EXCEPT !.catalog = CatalogAfter(@, font_name, None)]
  /\ UNCHANGED <<env, corrupt, builds>>
  /\ UNCHANGED <<threadVars, fontVars, placeVars, imageVars, drawVars, appVars>>

\* font_mapper._parse_filename(filename)
ParseFilenameCall ==
  /\ call = NoCall
  /\ \E filename \in ParsedNames :
       /\ call' = [NoCall EXCEPT !.fn = "_parse_filename",
                                 !.font_name = filename]
       /\ call_result' = [NoResult EXCEPT !.parsed = ParseFilename(filename)]
       /\ font_mapper' =
            [font_mapper EXCEPT !.catalog = CatalogAfter(@, filename, None)]
  /\ UNCHANGED <<env, corrupt, builds>>
  /\ UNCHANGED <<threadVars, fontVars, placeVars, imageVars, drawVars, appVars>>

\* the caller has taken the result; the next call can be made
FinishMethodCall ==
  /\ call # NoCall
  /\ call' = NoCall
  /\ call_result' = NoResult
  /\ UNCHANGED mapperVars
  /\ UNCHANGED <<threadVars, fontVars, placeVars, imageVars, drawVars, appVars>>

NextResolve ==
  \/ FindFontFamilyCall
  \/ GetFontPathMethodCall
  \/ IsChineseFontCall
  \/ HandleChineseFontVariantCall
  \/ GetAvailableFontsCall
  \/ ParseFontNameCall
  \/ ParseFilenameCall
  \/ FinishMethodCall

SpecResolve == InitResolve /\ [][NextResolve]_vars

(***************************************************************************)
(*             _draw_text_with_effects WHEN A STEP RAISES                  *)
(* Each call the drawing code makes into the imaging library either        *)
(* returns or raises; `fails` is the set of the calls that raise, named by *)
(* their place in the code.  What is drawn on the layer is a sequence of   *)
(* operations: [kind |-> "text", at] for a draw.text at that position, or  *)
(* the record of DrawSimulatedItalic for a sheared image composited.       *)
(***************************************************************************)

\* the calls of one _draw_text_with_effects that may raise:
\*   text          draw.text, line 182
\*   bold_text_1/2 draw.text at x and x + 1, line 291
\*   textbbox      draw.textbbox, lines 229 and 298
\*   new           Image.new and ImageDraw.Draw, lines 243-244 and 313-314
\*   temp_text     temp_draw.text, lines 250 and 319
\*   transform     temp_img.transform, lines 255 and 324
\*   main_image    draw._image, lines 268 and 340
\*   composite     crop and alpha_composite, lines 272-278 and 346-353,
\*                 called when some of the temporary image lies on the
\*                 main image
\*   offset_text_1/2 draw.text of the fallback, lines 285 and 359
\*   plain_inner   draw.text of the handler of _draw_simulated_text, line 364
\*   plain_outer   draw.text of the handler of _draw_text_with_effects,
\*                 line 187
DrawSteps ==
  {"text", "bold_text_1", "bold_text_2", "textbbox", "new", "temp_text",
   "transform", "main_image", "composite", "offset_text_1", "offset_text_2",
   "plain_inner", "plain_outer"}

\* Largest number of calls that raise in one _draw_text_with_effects.
MaxFailures == 3

\* Largest width and height of the text box enumerated.
MaxDrawWidth == 30

MaxDrawHeight == 40

TextAt(x, y) == [kind |-> "text", at |-> <<x, y>>]

\* the outcome of a block of code: what it drew, and whether it raised
Drew(ops) == [ops |-> ops, raised |-> FALSE]

Raised(ops) == [ops |-> ops, raised |-> TRUE]

\* draw.text calls in a row, at the positions given: they are made until
\* one raises
TextDraws(fails, steps, ats) ==
  IF \E i \in 1..Len(steps) : steps[i] \in fails
    THEN Raised([j \in 1..((CHOOSE i \in 1..Len(steps) :
                              /\ steps[i] \in fails
                              /\ \A k \in 1..(i - 1) : steps[k] \notin fails) - 1)
                   |-> TextAt(ats[j][1], ats[j][2])])
    ELSE Drew([j \in 1..Len(steps) |-> TextAt(ats[j][1], ats[j][2])])

\* int(text_height * 0.15)
ItalicOffset(plain) == ((plain[4] - plain[2]) * 15) \div 100

\* the shear branches whose "except" around the transform lets the
\* exception through
ShearedText_NoOffsetFallback(fails, main_size, xy, plain, stroke_width, simulate_bold) ==
  IF \/ {"textbbox", "new", "temp_text", "transform", "main_image"}
          \cap fails # {}
     \/ /\ "composite" \in fails
        /\ DrawSimulatedItalic(main_size, xy, plain, stroke_width,
                               simulate_bold).composited
    THEN Raised(<<>>)
    ELSE Drew(<<DrawSimulatedItalic(main_size, xy, plain, stroke_width,
                                    simulate_bold)>>)

\* _draw_simulated_text, lines 225-286 (simulate_bold) and 293-360: the
\* temporary image is made and drawn on; the transform and the composite are
\* tried; when they raise the text is drawn on the layer, moved right by
\* italic_offset (twice, one pixel apart, for bold)
ShearedText(fails, main_size, xy, plain, stroke_width, simulate_bold) ==
  IF {"textbbox", "new", "temp_text"} \cap fails # {}
    THEN Raised(<<>>)
  ELSE IF /\ {"transform", "main_image"} \cap fails = {}
          /\ "composite" \in fails
               => ~DrawSimulatedItalic(main_size, xy, plain, stroke_width,
                                       simulate_bold).composited
    THEN Drew(<<DrawSimulatedItalic(main_size, xy, plain, stroke_width,
                                    simulate_bold)>>)
  ELSE IF simulate_bold
    THEN TextDraws(fails, <<"offset_text_1", "offset_text_2">>,
                   << <<xy[1] + ItalicOffset(plain), xy[2]>>,
                      <<xy[1] + 1 + ItalicOffset(plain), xy[2]>> >>)
  ELSE TextDraws(fails, <<"offset_text_1">>,
                 << <<xy[1] + ItalicOffset(plain), xy[2]>> >>)

\* the handlers of lines 362-365 and 185-188: when the block raised, the
\* text is drawn at `position`; that draw.text may raise as well
OrPlainText(fails, step, xy, block) ==
  IF ~block.raised THEN block
  ELSE IF step \in fails THEN Raised(block.ops)
  ELSE Drew(Append(block.ops, TextAt(xy[1], xy[2])))

\* WatermarkProcessor._draw_simulated_text
DrawSimulatedText(fails, main_size, xy, plain, stroke_width, needs) ==
  OrPlainText(fails, "plain_inner", xy,
    IF needs[2]
      THEN ShearedText(fails, main_size, xy, plain, stroke_width, needs[1])
      ELSE TextDraws(fails, <<"bold_text_1", "bold_text_2">>,
                     << xy, <<xy[1] + 1, xy[2]>> >>))

\* WatermarkProcessor._draw_text_with_effects, given the two decisions and
\* the calls that raise: [ops, raised]
DrawTextWithEffectsOrRaise(fails, main_size, xy, plain, stroke_width, needs) ==
  OrPlainText(fails, "plain_outer", xy,
    IF needs[1] \/ needs[2]
      THEN DrawSimulatedText(fails, main_size, xy, plain, stroke_width, needs)
      ELSE TextDraws(fails, <<"text">>, <<xy>>))

\* the text boxes enumerated, the empty box included
DrawBoxes ==
  { <<0, t, w, t + h>> : t \in {0, 2}, w \in {0, 1, MaxDrawWidth},
                         h \in {0, 1, MaxDrawHeight - 1, MaxDrawHeight} }

FailureSets == { F \in SUBSET DrawSteps : Cardinality(F) <= MaxFailures }

\* create_text_watermark has made the layer for the text (no stroke, no
\* shadow) and is about to draw it.
InitDraw ==
  /\ \E plain \in DrawBoxes, bold \in BOOLEAN, italic \in BOOLEAN,
        fails \in FailureSets :
       draw_call = [plain |-> plain, needs |-> <<bold, italic>>,
                    fails |-> fails,
                    layer |-> TextCanvas(plain, 0, FALSE, <<2, 2>>)]
  /\ draw_result = Drew(<<>>)
  /\ dpc = "layer"
  /\ MapperIdle /\ ThreadIdle /\ FontIdle /\ PlaceIdle /\ ImageIdle
  /\ ResolveIdle /\ AppIdle

\* One call of _draw_text_with_effects for the text (line 152).
DrawTextWithEffectsCall ==
  /\ dpc = "layer"
  /\ draw_result' =
       DrawTextWithEffectsOrRaise(draw_call.fails, draw_call.layer.size,
                                  draw_call.layer.text_at, draw_call.plain,
                                  0, draw_call.needs)
  /\ dpc' = IF draw_result'.raised THEN "raised" ELSE "drawn"
  /\ UNCHANGED draw_call
  /\ UNCHANGED <<mapperVars, threadVars, fontVars, placeVars, imageVars,
                 resolveVars, appVars>>

NextDraw == DrawTextWithEffectsCall

SpecDraw == InitDraw /\ [][NextDraw]_vars

\* no call of the font, layer and compositing machines is under way
CoreIdle ==
  /\ MapperIdle /\ ThreadIdle /\ FontIdle /\ PlaceIdle /\ ImageIdle
  /\ ResolveIdle /\ DrawIdle

(***************************************************************************)
(*                              BATCH RUNS                                 *)
(* ImageProcessor.process_directory (photo_watermark) and                  *)
(* ImageExporter.batch_export (watermark_app): one loop over the images of *)
(* the batch.  An item of the batch is what the call made for it does:     *)
(*   "ok"      process_single_image / export_image returns True            *)
(*   "false"   it returns False (an image rejected or failed)              *)
(*   "raises"  export_image raises (batch_export only: lines 225-229)      *)
(* The progress callback is the caller's: it may be absent, and it returns *)
(* or raises at its raises_at-th call (0: it always returns).              *)
(***************************************************************************)

\* Largest number of images in a batch.
MaxBatch == 3

BatchKinds == {"process_directory", "batch_export"}

ItemOutcomes(kind) ==
  IF kind = "process_directory" THEN {"ok", "false"}
                                ELSE {"ok", "false", "raises"}

Batches(kind) ==
  UNION { [1..n -> ItemOutcomes(kind)] : n \in 0..MaxBatch }

\* the counters must not stop counting at a failure
Attempt_StopAtFailure(kind, run, item) ==
  IF item = "ok"
    THEN [run EXCEPT !.i = @ + 1, !.attempted = Append(@, run.i + 1),
                     !.success = @ + 1]
    ELSE [run EXCEPT !.i = run.total, !.attempted = Append(@, run.i + 1),
                     !.failed = IF kind = "batch_export" THEN @ + 1 ELSE @]

\* one image of the loop: process_directory lines 215-223, batch_export
\* lines 209-229; `i` counts the iterations begun
Attempt(kind, run, item) ==
  [run EXCEPT !.i = @ + 1,
              !.attempted = Append(@, run.i + 1),
              !.success = IF item = "ok" THEN @ + 1 ELSE @,
              !.failed = IF kind = "batch_export" /\ item # "ok"
                           THEN @ + 1 ELSE @]

\* The run has found its images (process_directory, lines 198-213) or has
\* set up its results (batch_export, lines 201-206) and enters the loop.
InitBatch ==
  /\ \E kind \in BatchKinds :
       \E items \in Batches(kind), callback \in BOOLEAN,
          raises_at \in 0..MaxBatch :
         /\ (raises_at > 0) => (callback /\ raises_at <= Len(items))
         /\ batch_call = [kind |-> kind, items |-> items,
                          callback |-> callback, raises_at |-> raises_at]
         /\ batch_run = [i |-> 0, attempted |-> <<>>, callbacks |-> <<>>,
                         success |-> 0, failed |-> 0, total |-> Len(items)]
  /\ bpc = "loop"
  /\ CoreIdle /\ AppIdleBut("batch")

\* The image of the next iteration is processed and counted.
AttemptImage ==
  /\ bpc = "loop"
  /\ batch_run.i < Len(batch_call.items)
  /\ batch_run' = Attempt(batch_call.kind, batch_run,
                          batch_call.items[batch_run.i + 1])
  /\ bpc' = "callback"
  /\ UNCHANGED batch_call
  /\ UNCHANGED notBatchVars

\* "if progress_callback:" at the end of the iteration (process_directory
\* lines 226-227, batch_export lines 232-234).  In process_directory an
\* exception of the callback leaves the function; in batch_export "except"
\* of line 240 returns the results counted so far.
ProgressCallback ==
  /\ bpc = "callback"
  /\ IF ~batch_call.callback
       THEN /\ bpc' = "loop"
            /\ UNCHANGED batch_run
       ELSE /\ batch_run' =
                 [batch_run EXCEPT !.callbacks =
                    Append(@, <<batch_run.i, batch_run.total>>)]
            /\ bpc' = IF batch_call.raises_at # Len(batch_run'.callbacks)
                        THEN "loop"
                      ELSE IF batch_call.kind = "batch_export"
                        THEN "returned"
                        ELSE "raised"
  /\ UNCHANGED batch_call
  /\ UNCHANGED notBatchVars

\* The loop is over: the counts are returned.
ReturnCounts ==
  /\ bpc = "loop"
  /\ batch_run.i = Len(batch_call.items)
  /\ bpc' = "returned"
  /\ UNCHANGED <<batch_call, batch_run>>
  /\ UNCHANGED notBatchVars

NextBatch == AttemptImage \/ ProgressCallback \/ ReturnCounts

SpecBatch == InitBatch /\ [][NextBatch]_vars

(***************************************************************************)
(*                    BATCH EXPORT WITH CANCELLATION                       *)
(* MainWindow._export_all_images (the loop of lines 1116-1184, run by the  *)
(* user interface thread; the Cancel button of the ProgressDialog is       *)
(* served inside progress_dialog.update_progress, which runs the event     *)
(* loop) and ExportDialog._process_images (the loop of lines 324-342, run  *)
(* by a background thread; _cancel_export and _close_dialog set            *)
(* should_cancel from the user interface thread at any moment).            *)
(* An item of the batch is what the calls made for one file do:            *)
(*   load       load_image returns an image                                *)
(*   watermark  what the layer construction gives: "layer", "None" (the    *)
(*              layer cannot be built: create_text_watermark and           *)
(*              load_image_watermark return None), or "raises"             *)
(*   export     export_image / save: "True", "False" or "raises"           *)
(***************************************************************************)

\* Largest number of files in an export.
MaxExports == 3

ExportKinds == {"export_all", "export_dialog"}

Item(load, wm, export) == [load |-> load, watermark |-> wm, export |-> export]

ExportItems(kind) ==
  IF kind = "export_all"
    THEN {Item(TRUE, "layer", "True"), Item(FALSE, "layer", "True"),
          Item(TRUE, "None", "True"), Item(TRUE, "raises", "True"),
          Item(TRUE, "layer", "False"), Item(TRUE, "layer", "raises")}
    ELSE {Item(TRUE, "layer", "True"), Item(FALSE, "layer", "True"),
          Item(TRUE, "None", "True"), Item(TRUE, "layer", "raises")}

Exports(kind) == UNION { [1..n -> ExportItems(kind)] : n \in 0..MaxExports }

\* MainWindow._apply_watermark_to_image for a loaded image and a watermark
\* configuration of type 'text' or 'image': the image returned is the copy
\* with the layer composited, the copy as it is when no layer was made
\* ("if watermark:", line 587), or the image given when a step raised
\* (line 613).  ExportDialog._apply_watermark (lines 416-472) likewise
\* returns the copy as it is when the text is empty or a step raised.
ApplyWatermarkToImage(wm) ==
  [image |-> IF wm = "raises" THEN "image" ELSE "result_image",
   watermarked |-> wm = "layer"]

\* the loop that goes on after a cancellation
Continues_IgnoringCancel(run, n) == run.i < n

\* "for ... in enumerate(files)" with "if is_cancelled(): break" (lines
\* 1116-1120) and "if self.should_cancel: break" (lines 324-326)
Continues(run, n) == run.i < n /\ ~run.cancel_var

\* the rest of one iteration of _export_all_images, lines 1131-1184
ExportAllImage(run, item) ==
  LET done == [run EXCEPT !.completed = Append(@, run.i)]
      failed == [done EXCEPT !.failed_count = @ + 1]
  IN IF ~item.load \/ item.export # "True" THEN failed
     ELSE [done EXCEPT
             !.success_count = @ + 1,
             !.exported = Append(@,
               [index |-> run.i,
                watermarked |->
                  ApplyWatermarkToImage(item.watermark).watermarked])]

\* the rest of one iteration of _process_images, lines 328-342
ExportDialogImage(run, item) ==
  LET done == [run EXCEPT !.completed = Append(@, run.i)]
      failed == [done EXCEPT !.failed_count = @ + 1]
  IN IF ~item.load \/ item.export # "True" THEN failed
     ELSE [done EXCEPT
             !.success_count = @ + 1,
             !.exported = Append(@,
               [index |-> run.i, watermarked |-> item.watermark = "layer"])]

\* nothing asked yet
NotRequested == [i |-> 0, exported |-> <<>>, asked |-> FALSE]

\* The export has its list of files and enters the loop.
InitExport ==
  /\ \E kind \in ExportKinds : \E items \in Exports(kind) :
       export_call = [kind |-> kind, items |-> items]
  /\ export_run = [i |-> 0, started |-> <<>>, completed |-> <<>>,
                   exported |-> <<>>, success_count |-> 0,
                   failed_count |-> 0, cancel_var |-> FALSE,
                   requested |-> NotRequested]
  /\ xpc = "check"
  /\ CoreIdle /\ AppIdleBut("export")

\* The head of the loop: the next file is begun, or the loop is left.
LoopCheck ==
  /\ xpc = "check"
  /\ IF Continues(export_run, Len(export_call.items))
       THEN /\ export_run' = [export_run EXCEPT
                                !.i = @ + 1,
                                !.started = Append(@, export_run.i + 1)]
            /\ xpc' = IF export_call.kind = "export_all" THEN "update"
                                                          ELSE "image"
       ELSE /\ xpc' = "done"
            /\ UNCHANGED export_run
  /\ UNCHANGED export_call
  /\ UNCHANGED notExportVars

\* cancel_var (should_cancel) is set; what had been begun and exported by
\* then is remembered
Cancelled(run) ==
  [run EXCEPT !.cancel_var = TRUE,
              !.requested = IF run.cancel_var THEN @
                            ELSE [i |-> run.i, exported |-> run.exported,
                                  asked |-> TRUE]]

\* progress_dialog.update_progress (lines 1124-1129): dialog.update() serves
\* the events waiting; a click on Cancel runs ProgressDialog._cancel_task.
UpdateProgress ==
  /\ xpc = "update"
  /\ \E clicked \in BOOLEAN :
       export_run' = IF clicked THEN Cancelled(export_run) ELSE export_run
  /\ xpc' = "image"
  /\ UNCHANGED export_call
  /\ UNCHANGED notExportVars

\* ExportDialog._cancel_export and _close_dialog, while the thread of
\* _process_images runs.
CancelExport ==
  /\ export_call.kind = "export_dialog"
  /\ xpc \in {"check", "image"}
  /\ ~export_run.cancel_var
  /\ export_run' = Cancelled(export_run)
  /\ UNCHANGED <<export_call, xpc>>
  /\ UNCHANGED notExportVars

\* The file of the iteration is loaded, watermarked and exported.
ProcessImage ==
  /\ xpc = "image"
  /\ export_run' =
       IF export_call.kind = "export_all"
         THEN ExportAllImage(export_run, export_call.items[export_run.i])
         ELSE ExportDialogImage(export_run, export_call.items[export_run.i])
  /\ xpc' = "check"
  /\ UNCHANGED export_call
  /\ UNCHANGED notExportVars

NextExport == LoopCheck \/ UpdateProgress \/ CancelExport \/ ProcessImage

\* the loop is run by a thread that goes on running
SpecExport ==
  InitExport /\ [][NextExport]_vars
    /\ WF_vars(LoopCheck \/ UpdateProgress \/ ProcessImage)

(***************************************************************************)
(*                      A RENDER CALL WITH A ROTATION                      *)
(* MainWindow._apply_watermark_to_image, lines 587-607: the layer is       *)
(* rotated when position_config['rotation'] is not 0, then the position is *)
(* computed, the bounds are recorded and the layer is composited.          *)
(***************************************************************************)

\* Largest side of the layer rotated.
MaxRotated == 3

\* the angles of the rotation slider enumerated, in degrees
Rotations == {0, 90, -90, 180, -180, 45}

\* Image.rotate(angle, expand=True): the size of the image returned.  The
\* angle is taken modulo 360; a half turn keeps the size, a quarter turn
\* swaps width and height; for another angle the size is that of the box
\* around the turned corners: at 45 degrees each side is (w + h) / sqrt(2)
\* rounded outwards, any of the values the rounding of the corners allows.
RotatedSizes(size, angle) ==
  LET a == angle % 360
  IN IF a \in {0, 180} THEN {size}
     ELSE IF a \in {90, 270} THEN {<<size[2], size[1]>>}
     ELSE LET n == ((size[1] + size[2]) * 7) \div 10
          IN (n..(n + 2)) \X (n..(n + 2))

\* the layer the position is computed for: the position must not be
\* computed for the layer as it was before the rotation
LayerPlaced_BeforeRotation(original, layer) == original

\* "watermark" at line 596: the layer rotate_watermark returned
LayerPlaced(original, layer) == layer.size

\* A render call that has produced its layer (line 587).
InitRotate ==
  /\ \E img \in {<<6, 4>>, <<4, 4>>},
        wm \in (1..MaxRotated) \X (1..MaxRotated),
        rotation \in Rotations, raises \in BOOLEAN,
        cfg \in [position: Anchors \cup {"custom"}, h_margin: {0, 1},
                 v_margin: {0}, custom_x: {2}, custom_y: {1}] :
       /\ rot_call = [image_size |-> img, watermark_size |-> wm,
                      rotation |-> rotation, raises |-> raises,
                      position_config |-> cfg]
       /\ rot_layer = [size |-> wm, rotated_by |-> 0]
  /\ rot_placed = [position |-> NoPos, bounds |-> NoPos, pasted |-> NoPos]
  /\ qpc = "watermark"
  /\ CoreIdle /\ AppIdleBut("rotate")

\* Lines 589-593 and rotate_watermark: with a rotation other than 0 the
\* layer becomes what Image.rotate returns; when Image.rotate raises,
\* rotate_watermark returns the layer it was given (line 431).
RotateWatermark ==
  /\ qpc = "watermark"
  /\ IF rot_call.rotation = 0 \/ rot_call.raises
       THEN UNCHANGED rot_layer
       ELSE \E size \in RotatedSizes(rot_layer.size, rot_call.rotation) :
              rot_layer' = [size |-> size, rotated_by |-> rot_call.rotation]
  /\ qpc' = "rotated"
  /\ UNCHANGED <<rot_call, rot_placed>>
  /\ UNCHANGED notRotateVars

\* Lines 595-602: the position and the bounds of the watermark.
PositionRotated ==
  /\ qpc = "rotated"
  /\ rot_placed' =
       [rot_placed EXCEPT
          !.position = CalculateWatermarkPosition(
                         rot_call.image_size,
                         LayerPlaced(rot_call.watermark_size, rot_layer),
                         rot_call.position_config),
          !.bounds = <<CalculateWatermarkPosition(
                         rot_call.image_size,
                         LayerPlaced(rot_call.watermark_size, rot_layer),
                         rot_call.position_config)[1],
                       CalculateWatermarkPosition(
                         rot_call.image_size,
                         LayerPlaced(rot_call.watermark_size, rot_layer),
                         rot_call.position_config)[2],
                       rot_layer.size[1], rot_layer.size[2]>>]
  /\ qpc' = "positioned"
  /\ UNCHANGED <<rot_call, rot_layer>>
  /\ UNCHANGED notRotateVars

\* Lines 604-607: apply_watermark composites the layer.
ApplyRotated ==
  /\ qpc = "positioned"
  /\ rot_placed' =
       [rot_placed EXCEPT
          !.pasted = PasteRegion(ClampPosition(rot_placed.position,
                                               rot_call.image_size,
                                               rot_layer.size),
                                 rot_call.image_size, rot_layer.size)]
  /\ qpc' = "applied"
  /\ UNCHANGED <<rot_call, rot_layer>>
  /\ UNCHANGED notRotateVars

NextRotate == RotateWatermark \/ PositionRotated \/ ApplyRotated

SpecRotate == InitRotate /\ [][NextRotate]_vars

(***************************************************************************)
(*                     THE PASSES THAT PAINT A TEXT                        *)
(* A pass paints the glyphs of the text once: as a stroke (the glyphs      *)
(* widened by stroke_width, in the stroke colour), as an outline (the      *)
(* glyphs moved by (dx, dy), in the outline colour) or as the fill.        *)
(* ImageDraw.text with a stroke_width above 0 paints the stroke, then the  *)
(* fill; without it paints the fill.  A pass is                            *)
(*   [layer  |-> "shadow" or "text",  pass |-> "stroke", "outline", "fill",*)
(*    base   |-> the position given for the text or the shadow,            *)
(*    dx, dy |-> how far from it the glyphs are painted,                   *)
(*    buffer |-> "layer" or "temp" (the temporary image of the shear)]     *)
(***************************************************************************)

\* Largest stroke and outline width painted.
MaxPaintStroke == 2

Pass(layer, pass, base, dx, dy, buffer) ==
  [layer |-> layer, pass |-> pass, base |-> base, dx |-> dx, dy |-> dy,
   buffer |-> buffer]

\* draw.text(xy, text, font=font, fill=..., stroke_width=..., stroke_fill=...)
TextPasses(layer, base, dx, stroke_width, buffer) ==
  (IF stroke_width > 0
     THEN << Pass(layer, "stroke", base, dx, 0, buffer) >>
     ELSE << >>)
  \o << Pass(layer, "fill", base, dx, 0, buffer) >>

\* _draw_text_with_effects for the shadow or the text: simulated bold paints
\* the text at x and at x + 1 (lines 289-292; in the temporary image for bold
\* italic, lines 249-251), simulated italic paints it on the temporary image
\* (line 319), and otherwise draw.text paints it once (line 182)
EffectPasses(layer, base, stroke_width, needs) ==
  LET buffer == IF needs[2] THEN "temp" ELSE "layer"
  IN IF needs[1]
       THEN TextPasses(layer, base, 0, stroke_width, buffer)
            \o TextPasses(layer, base, 1, stroke_width, buffer)
       ELSE TextPasses(layer, base, 0, stroke_width, buffer)

\* create_text_watermark, lines 144-153
LayerPasses(xy, shadow, shadow_offset, stroke_width, needs) ==
  (IF shadow
     THEN EffectPasses("shadow", <<xy[1] + shadow_offset[1],
                                   xy[2] + shadow_offset[2]>>,
                       stroke_width, needs)
     ELSE << >>)
  \o EffectPasses("text", xy, stroke_width, needs)

\* the offsets of the outline of WatermarkRenderer.render_watermark, in the
\* order of the two loops of lines 120-122
OutlineOffsets(outline_width) ==
  LET side == 2 * outline_width + 1
      all == [k \in 1..(side * side) |->
                <<((k - 1) \div side) - outline_width,
                  ((k - 1) % side) - outline_width>>]
      NotZero(o) == o # <<0, 0>>
  IN SelectSeq(all, NotZero)

\* WatermarkRenderer.render_watermark, lines 117-137
RendererPasses(xy, outline_width) ==
  (IF outline_width > 0
     THEN [k \in 1..Len(OutlineOffsets(outline_width)) |->
             Pass("text", "outline", xy,
                  OutlineOffsets(outline_width)[k][1],
                  OutlineOffsets(outline_width)[k][2], "layer")]
     ELSE << >>)
  \o << Pass("text", "fill", xy, 0, 0, "layer") >>

\* The canvas is made and the position of the text is known (line 142 of
\* create_text_watermark, line 105 of render_watermark).
InitPaint ==
  /\ \E renderer \in {"create_text_watermark", "render_watermark"},
        xy \in {<<0, 0>>, <<2, 2>>, <<3, 1>>, <<1, 0>>},
        shadow \in Shadows, stroke_width \in 0..MaxPaintStroke,
        bold \in BOOLEAN, italic \in BOOLEAN :
       /\ renderer = "render_watermark" =>
            ~shadow[1] /\ shadow[2] = <<2, 2>> /\ ~bold /\ ~italic
       /\ paint_call = [renderer |-> renderer, xy |-> xy,
                        shadow |-> shadow[1], shadow_offset |-> shadow[2],
                        stroke_width |-> stroke_width,
                        needs |-> <<bold, italic>>]
  /\ passes = <<>>
  /\ ppc = "canvas"
  /\ CoreIdle /\ AppIdleBut("paint")

\* The text is painted on the canvas.
PaintText ==
  /\ ppc = "canvas"
  /\ passes' =
       IF paint_call.renderer = "render_watermark"
         THEN RendererPasses(paint_call.xy, paint_call.stroke_width)
         ELSE LayerPasses(paint_call.xy, paint_call.shadow,
                          paint_call.shadow_offset, paint_call.stroke_width,
                          paint_call.needs)
  /\ ppc' = "painted"
  /\ UNCHANGED paint_call
  /\ UNCHANGED notPaintVars

NextPaint == PaintText

SpecPaint == InitPaint /\ [][NextPaint]_vars

(***************************************************************************)
(*                    CONSTRUCTING A WatermarkConfig                       *)
(* photo_watermark/core/watermark.py: a dataclass whose __post_init__      *)
(* validates font_size, opacity and margin.  When __post_init__ raises,    *)
(* the constructor call raises and no object is bound.                     *)
(***************************************************************************)

\* The values given lie within MaxConfigValue of a limit of a range.
MaxConfigValue == 2

\* the largest opacity accepted (line 52)
OpaqueValue == 255

\* the fields of a config that was not made
NoConfig == [font_size |-> 0, opacity |-> 0, margin |-> 0]

ConfigValues == (0 - MaxConfigValue)..MaxConfigValue

ConfigOpacities ==
  ConfigValues \cup ((OpaqueValue - MaxConfigValue)..(OpaqueValue + MaxConfigValue))

\* WatermarkConfig.__post_init__: the message of the ValueError raised, ""
\* when none is
PostInit_ZeroFontSize(font_size, opacity, margin) ==
  IF font_size < 0 THEN "Font size must be positive"
  ELSE IF ~(0 <= opacity /\ opacity <= OpaqueValue)
    THEN "Opacity must be between 0 and 255"
  ELSE IF margin < 0 THEN "Margin must be non-negative"
  ELSE ""

PostInit(font_size, opacity, margin) ==
  IF font_size <= 0 THEN "Font size must be positive"
  ELSE IF ~(0 <= opacity /\ opacity <= OpaqueValue)
    THEN "Opacity must be between 0 and 255"
  ELSE IF margin < 0 THEN "Margin must be non-negative"
  ELSE ""

InitConfig ==
  /\ \E font_size \in ConfigValues, opacity \in ConfigOpacities,
        margin \in ConfigValues :
       cfg_call = [font_size |-> font_size, opacity |-> opacity,
                   margin |-> margin]
  /\ cfg_result = [made |-> FALSE, config |-> NoConfig, raised |-> ""]
  /\ cpc = "call"
  /\ CoreIdle /\ AppIdleBut("config")

\* WatermarkConfig(font_size=..., opacity=..., margin=...): the generated
\* __init__ assigns the fields and calls __post_init__
ConstructConfig ==
  /\ cpc = "call"
  /\ LET raised == PostInit(cfg_call.font_size, cfg_call.opacity,
                            cfg_call.margin)
     IN cfg_result' =
          IF raised = ""
            THEN [made |-> TRUE, config |-> cfg_call, raised |-> ""]
            ELSE [made |-> FALSE, config |-> NoConfig, raised |-> raised]
  /\ cpc' = "done"
  /\ UNCHANGED cfg_call
  /\ UNCHANGED notConfigVars

NextConfig == ConstructConfig

SpecConfig == InitConfig /\ [][NextConfig]_vars

(***************************************************************************)
(*                        PROCESSING ONE IMAGE                             *)
(* ImageProcessor.process_single_image (photo_watermark): load the image,  *)
(* read its EXIF date, render the watermark, save.  What a step does is    *)
(* given with the call:                                                    *)
(*   load    "ok", "missing" (FileNotFoundError), "unsupported"            *)
(*           (ValueError), "unreadable" (IOError)                          *)
(*   date    "date", "none" (get_formatted_date returns None), "raises"    *)
(*   render  "ok", "raises"                                                *)
(*   save    "ok", "mkdir_raises", "refused" (Image.save raises before the *)
(*           file is opened: unknown extension, no permission), "broken"   *)
(*           (Image.save raises while the file is being written)           *)
(*   existed  a file is at output_path before the call                     *)
(*   removes  Image.save removes a file it created when it fails           *)
(* The output file is "absent", "old" (as before the call), "partial" (cut *)
(* or half written) or "watermarked".                                      *)
(***************************************************************************)

SingleCalls ==
  [load : {"ok", "missing", "unsupported", "unreadable"},
   date : {"date", "none", "raises"},
   render : {"ok", "raises"},
   save : {"ok", "mkdir_raises", "refused", "broken"},
   existed : BOOLEAN, removes : BOOLEAN]

\* the file at output_path before the call
OutBefore(c) == IF c.existed THEN "old" ELSE "absent"

\* Image.save(output_path) of save_image, lines 79-85: the file is opened
\* for writing, which cuts a file that is there, and written.  When the
\* writing fails, the library removes the file only if it created it
ImageSave(c) ==
  CASE c.save = "ok" -> "watermarked"
    [] c.save = "broken" ->
         IF ~c.existed /\ c.removes THEN "absent" ELSE "partial"
    [] OTHER -> OutBefore(c)

InitSingle ==
  /\ single_call \in SingleCalls
  /\ single_run = [out |-> OutBefore(single_call), returned |-> "none"]
  /\ spc = "load"
  /\ CoreIdle /\ AppIdleBut("single")

\* except Exception: logger.error(...); return False (lines 149-151)
ReturnsFalse(run) == [run EXCEPT !.returned = "False"]

\* image = self.load_image(input_path), line 131
LoadImage ==
  /\ spc = "load"
  /\ IF single_call.load = "ok"
       THEN spc' = "date" /\ UNCHANGED single_run
       ELSE spc' = "done" /\ single_run' = ReturnsFalse(single_run)
  /\ UNCHANGED single_call
  /\ UNCHANGED notSingleVars

\* date_text = self.exif_reader.get_formatted_date(input_path); a date_text
\* of None returns False (lines 134-138)
GetFormattedDate ==
  /\ spc = "date"
  /\ IF single_call.date = "date"
       THEN spc' = "render" /\ UNCHANGED single_run
       ELSE spc' = "done" /\ single_run' = ReturnsFalse(single_run)
  /\ UNCHANGED single_call
  /\ UNCHANGED notSingleVars

\* watermarked_image = self.add_watermark(image, date_text, config), line 141
AddWatermark ==
  /\ spc = "render"
  /\ IF single_call.render = "ok"
       THEN spc' = "save" /\ UNCHANGED single_run
       ELSE spc' = "done" /\ single_run' = ReturnsFalse(single_run)
  /\ UNCHANGED single_call
  /\ UNCHANGED notSingleVars

\* self.save_image(watermarked_image, output_path); return True (lines
\* 144-147), or the exception of save_image is caught and False returned
SaveImage ==
  /\ spc = "save"
  /\ single_run' =
       [out |-> ImageSave(single_call),
        returned |-> IF single_call.save = "ok" THEN "True" ELSE "False"]
  /\ spc' = "done"
  /\ UNCHANGED single_call
  /\ UNCHANGED notSingleVars

NextSingle == LoadImage \/ GetFormattedDate \/ AddWatermark \/ SaveImage

SpecSingle == InitSingle /\ [][NextSingle]_vars

(***************************************************************************)
(*                      THE LIST OF THE FileManager                        *)
(* watermark_app/core/file_manager.py.  A path is                          *)
(*   [form |-> "abs" or "rel" ("/cwd/a.jpg", "a.jpg"),                     *)
(*    file |-> the file it names,                                          *)
(*    kind |-> "image" (exists, supported extension), "text" (exists,      *)
(*             unsupported extension) or "missing"]                        *)
(* and os.path.abspath gives the "abs" form of the same file.  An entry of *)
(* image_files is [path |-> the absolute path]; its other fields (name,    *)
(* size, times) play no part in the list.                                  *)
(***************************************************************************)

\* The image files there are; one text file and one missing file besides.
MaxFiles == 3

\* Longest list given to add_multiple_files and longest folder.
MaxAdded == 2

PathForms == {"abs", "rel"}

FilePaths ==
  [form : PathForms, file : 1..MaxFiles, kind : {"image"}]
  \cup [form : PathForms, file : {MaxFiles + 1}, kind : {"text"}]
  \cup [form : PathForms, file : {MaxFiles + 2}, kind : {"missing"}]

PathLists == UNION { [1..n -> FilePaths] : n \in 0..MaxAdded }

\* os.path.abspath(file_path)
Abspath(file_path) == [file_path EXCEPT !.form = "abs"]

\* the files a folder lists, each once: os.walk and os.listdir of a folder
\* given in one form, joined to the folder
FolderLists ==
  { l \in PathLists :
      /\ \A i, j \in 1..Len(l) : l[i].file = l[j].file => i = j
      /\ \A i \in 1..Len(l) : l[i].form = l[1].form /\ l[i].kind # "missing" }

\* is_image_file(file_path), lines 68-82
IsImageFile(file_path) == file_path.kind # "text"

\* add_single_file(file_path), lines 119-142: [files, returned]
AddSingleFile_ComparesGiven(files, file_path) ==
  IF file_path.kind = "missing" THEN [files |-> files, returned |-> FALSE]
  ELSE IF ~IsImageFile(file_path) THEN [files |-> files, returned |-> FALSE]
  ELSE IF \E i \in 1..Len(files) : files[i].path = file_path
    THEN [files |-> files, returned |-> FALSE]
  ELSE [files |-> Append(files, [path |-> Abspath(file_path)]),
        returned |-> TRUE]

AddSingleFile(files, file_path) ==
  IF file_path.kind = "missing" THEN [files |-> files, returned |-> FALSE]
  ELSE IF ~IsImageFile(file_path) THEN [files |-> files, returned |-> FALSE]
  ELSE IF \E i \in 1..Len(files) : files[i].path = Abspath(file_path)
    THEN [files |-> files, returned |-> FALSE]
  ELSE [files |-> Append(files, [path |-> Abspath(file_path)]),
        returned |-> TRUE]

\* add_multiple_files(file_paths), lines 154-160: [files, returned], with
\* returned the number of files added
RECURSIVE AddMultipleFiles(_, _)
AddMultipleFiles(files, file_paths) ==
  IF file_paths = << >> THEN [files |-> files, returned |-> 0]
  ELSE LET first == AddSingleFile(files, Head(file_paths))
           rest == AddMultipleFiles(first.files, Tail(file_paths))
       IN [files |-> rest.files,
           returned |-> rest.returned + (IF first.returned THEN 1 ELSE 0)]

\* remove_file(file_path), lines 218-228
RemoveFile(files, file_path) ==
  LET Kept(img) == img.path # Abspath(file_path)
      kept == SelectSeq(files, Kept)
  IN [files |-> kept, returned |-> Len(kept) < Len(files)]

\* remove_file_by_index(index), lines 245-251
RemoveFileByIndex(files, index) ==
  IF 0 <= index /\ index < Len(files)
    THEN [files |-> [k \in 1..(Len(files) - 1) |->
                       IF k <= index THEN files[k] ELSE files[k + 1]],
          returned |-> TRUE]
    ELSE [files |-> files, returned |-> FALSE]

\* FileManager(), lines 29-32
InitFiles ==
  /\ image_files = <<>>
  /\ fm_last = [op |-> "none", arg |-> <<>>, index |-> 0, returned |-> "None",
                count |-> 0, before |-> <<>>]
  /\ CoreIdle /\ AppIdleBut("files")

\* the call made: the path or the index given, the truth value or the count
\* returned, and the list before the call
Bool(b) == IF b THEN "True" ELSE "False"

Called(op, arg, index, returned, count) ==
  [op |-> op, arg |-> arg, index |-> index, returned |-> returned,
   count |-> count, before |-> image_files]

CallAddSingleFile ==
  /\ \E file_path \in FilePaths :
       LET r == AddSingleFile(image_files, file_path)
       IN /\ image_files' = r.files
          /\ fm_last' = Called("add_single_file", <<file_path>>, 0,
                               Bool(r.returned), 0)
  /\ UNCHANGED notFilesVars

CallAddMultipleFiles ==
  /\ \E file_paths \in PathLists :
       LET r == AddMultipleFiles(image_files, file_paths)
       IN /\ image_files' = r.files
          /\ fm_last' = Called("add_multiple_files", << >>, 0, "None",
                               r.returned)
  /\ UNCHANGED notFilesVars

\* add_folder(folder_path, recursive), lines 173-201: a folder that is
\* missing or is no folder adds nothing; the image files found are given to
\* add_multiple_files
CallAddFolder ==
  /\ \E listed \in FolderLists, is_dir \in BOOLEAN :
       LET r == IF is_dir
                  THEN AddMultipleFiles(image_files,
                                        SelectSeq(listed, IsImageFile))
                  ELSE [files |-> image_files, returned |-> 0]
       IN /\ image_files' = r.files
          /\ fm_last' = Called("add_folder", << >>, 0, "None", r.returned)
  /\ UNCHANGED notFilesVars

CallRemoveFile ==
  /\ \E file_path \in FilePaths :
       LET r == RemoveFile(image_files, file_path)
       IN /\ image_files' = r.files
          /\ fm_last' = Called("remove_file", <<file_path>>, 0,
                               Bool(r.returned), 0)
  /\ UNCHANGED notFilesVars

CallRemoveFileByIndex ==
  /\ \E index \in (0 - 1)..(MaxFiles + 1) :
       LET r == RemoveFileByIndex(image_files, index)
       IN /\ image_files' = r.files
          /\ fm_last' = Called("remove_file_by_index", << >>, index,
                               Bool(r.returned), 0)
  /\ UNCHANGED notFilesVars

\* clear_all(), lines 255-259
CallClearAll ==
  /\ image_files' = << >>
  /\ fm_last' = Called("clear_all", << >>, 0, "None", 0)
  /\ UNCHANGED notFilesVars

NextFiles ==
  \/ CallAddSingleFile
  \/ CallAddMultipleFiles
  \/ CallAddFolder
  \/ CallRemoveFile
  \/ CallRemoveFileByIndex
  \/ CallClearAll

SpecFiles == InitFiles /\ [][NextFiles]_vars

(***************************************************************************)
(*                THE CURRENT IMAGE OF THE MAIN WINDOW                     *)
(* watermark_app/gui/main_window.py: the handlers that set                 *)
(* current_image_index and current_image.  The files are numbered from 1;  *)
(* current_image is the number of the file the image was loaded from, and  *)
(* 0 for None.  Indexes are those of the code, from 0.                     *)
(***************************************************************************)

\* The files there are to import.
MaxShown == 3

\* current_image = None
NoCurrentImage == 0

\* _on_image_selection_change(index), lines 341-359: [index, image], with
\* loads telling whether load_image returns an image
OnSelection(files, index, loads) ==
  IF index >= 0 /\ index < Len(files) /\ loads
    THEN [index |-> index, image |-> files[index + 1]]
    ELSE [index |-> 0 - 1, image |-> NoCurrentImage]

\* _on_remove_image(index), lines 404-418: [files, index, image, removed]
OnRemove_KeepsIndex(files, current, image, index) ==
  IF ~(0 <= index /\ index < Len(files))
    THEN [files |-> files, index |-> current, image |-> image,
          removed |-> FALSE]
    ELSE LET left == RemoveFileByIndex(files, index).files
         IN IF index = current
              THEN [files |-> left, index |-> 0 - 1,
                    image |-> NoCurrentImage, removed |-> TRUE]
              ELSE [files |-> left, index |-> current, image |-> image,
                    removed |-> TRUE]

OnRemove(files, current, image, index) ==
  IF ~(0 <= index /\ index < Len(files))
    THEN [files |-> files, index |-> current, image |-> image,
          removed |-> FALSE]
    ELSE LET left == RemoveFileByIndex(files, index).files
         IN IF index = current
              THEN [files |-> left, index |-> 0 - 1,
                    image |-> NoCurrentImage, removed |-> TRUE]
            ELSE IF index < current
              THEN [files |-> left, index |-> current - 1, image |-> image,
                    removed |-> TRUE]
            ELSE [files |-> left, index |-> current, image |-> image,
                  removed |-> TRUE]

\* MainWindow.__init__, lines 59-60
InitWindow ==
  /\ shown_files = <<>>
  /\ current_image_index = 0 - 1
  /\ current_image = NoCurrentImage
  /\ mw_last = [op |-> "none", index |-> 0, removed |-> FALSE,
                before_index |-> 0 - 1, before_files |-> <<>>]
  /\ CoreIdle /\ AppIdleBut("window")

Event(op, index, removed) ==
  [op |-> op, index |-> index, removed |-> removed,
   before_index |-> current_image_index, before_files |-> shown_files]

\* _process_dropped_files: files that are not listed are added at the end of
\* the list and the list panel is refreshed (lines 791-806)
ProcessDroppedFiles ==
  /\ \E file \in 1..MaxShown :
       /\ \A i \in 1..Len(shown_files) : shown_files[i] # file
       /\ shown_files' = Append(shown_files, file)
  /\ mw_last' = Event("import", 0, FALSE)
  /\ UNCHANGED <<current_image_index, current_image>>
  /\ UNCHANGED notWindowVars

\* _on_image_selection_change(index), called by the list panel with the
\* index selected, or with -1 when nothing is selected
OnImageSelectionChange ==
  /\ \E index \in (0 - 2)..MaxShown, loads \in BOOLEAN :
       LET r == OnSelection(shown_files, index, loads)
       IN /\ current_image_index' = r.index
          /\ current_image' = r.image
          /\ mw_last' = Event("select", index, FALSE)
  /\ UNCHANGED shown_files
  /\ UNCHANGED notWindowVars

\* _on_image_switch(direction), lines 366-380: the list panel is told to
\* select the image before or after the current one; when its selection
\* changes (delivered) it calls _on_image_selection_change(new_index)
OnImageSwitch ==
  /\ \E direction \in {"prev", "next"}, delivered \in BOOLEAN, loads \in BOOLEAN :
       LET switches ==
             /\ shown_files # << >>
             /\ current_image_index >= 0
             /\ \/ direction = "prev" /\ current_image_index > 0
                \/ direction = "next"
                     /\ current_image_index < Len(shown_files) - 1
           new_index == IF direction = "prev" THEN current_image_index - 1
                        ELSE current_image_index + 1
           r == IF switches /\ delivered
                  THEN OnSelection(shown_files, new_index, loads)
                  ELSE [index |-> current_image_index,
                        image |-> current_image]
       IN /\ current_image_index' = r.index
          /\ current_image' = r.image
          /\ mw_last' = Event(direction, IF switches THEN new_index ELSE 0 - 1,
                              FALSE)
  /\ UNCHANGED shown_files
  /\ UNCHANGED notWindowVars

\* _on_remove_image(index), called by the list panel with its selected index
\* and by _remove_selected_image with the current index (lines 1469-1470)
OnRemoveImage ==
  /\ \E index \in (0 - 1)..MaxShown :
       LET r == OnRemove(shown_files, current_image_index, current_image, index)
       IN /\ shown_files' = r.files
          /\ current_image_index' = r.index
          /\ current_image' = r.image
          /\ mw_last' = Event("remove", index, r.removed)
  /\ UNCHANGED notWindowVars

\* _clear_image_list(), lines 1477-1499: nothing is done for an empty list or
\* when the user does not confirm
ClearImageList ==
  /\ \E confirmed \in BOOLEAN :
       IF shown_files # << >> /\ confirmed
         THEN /\ shown_files' = << >>
              /\ current_image_index' = 0 - 1
              /\ current_image' = NoCurrentImage
         ELSE UNCHANGED <<shown_files, current_image_index, current_image>>
  /\ mw_last' = Event("clear", 0, FALSE)
  /\ UNCHANGED notWindowVars

\* _refresh_current_image(), lines 1419-1420
RefreshCurrentImage ==
  /\ \E loads \in BOOLEAN :
       LET r == IF current_image_index >= 0
                  THEN OnSelection(shown_files, current_image_index, loads)
                  ELSE [index |-> current_image_index,
                        image |-> current_image]
       IN /\ current_image_index' = r.index
          /\ current_image' = r.image
  /\ mw_last' = Event("refresh", 0, FALSE)
  /\ UNCHANGED shown_files
  /\ UNCHANGED notWindowVars

NextWindow ==
  \/ ProcessDroppedFiles
  \/ OnImageSelectionChange
  \/ OnImageSwitch
  \/ OnRemoveImage
  \/ ClearImageList
  \/ RefreshCurrentImage

SpecWindow == InitWindow /\ [][NextWindow]_vars

(***************************************************************************)
(*                 THE FILES WRITTEN BY export_image                       *)
(* watermark_app/core/exporter.py.  A path of the output directory is      *)
(*   [stem |-> the name without counters, counters |-> the numbers of the  *)
(*    " (n)" that follow it, suffix |-> the extension]                     *)
(* so that "a (1).png" is [stem "a", counters <<1>>, suffix ".png"] whether *)
(* it was asked for or made by _get_unique_filename.  A file is            *)
(* [name |-> path, content |-> 0 for a file that was there before any      *)
(* export, k for what the k-th call wrote].                                *)
(***************************************************************************)

\* The calls of export_image made.
MaxSaves == 2

\* format_type.lower(), line 106
FormatLower(format_type) ==
  CASE format_type = "PNG" -> "png"
    [] format_type = "JPEG" -> "jpeg"
    [] OTHER -> format_type

\* SUPPORTED_FORMATS[...]['extension'], lines 22-53
FormatExtension ==
  [jpeg |-> ".jpg", jpg |-> ".jpg", png |-> ".png", bmp |-> ".bmp",
   tiff |-> ".tiff", tif |-> ".tif"]

\* path_obj.suffix.lower(), line 117
SuffixLower(suffix) ==
  CASE suffix = ".JPG" -> ".jpg"
    [] suffix = ".PNG" -> ".png"
    [] OTHER -> suffix

\* the paths asked for and the formats given
OutputPaths ==
  [stem : {"a"}, counters : {<< >>, <<1>>},
   suffix : {".png", ".JPG", ".jpeg"}]

FormatTypes == {"png", "PNG", "jpeg", "gif"}

\* lines 114-118: the path with the extension of the format
CorrectExtension(output_path, format_type) ==
  IF SuffixLower(output_path.suffix) # FormatExtension[format_type]
    THEN [output_path EXCEPT !.suffix = FormatExtension[format_type]]
    ELSE output_path

\* os.path.exists(path)
PathExists(dir, path) == \E f \in dir : f.name = path

\* f"{stem} ({counter}){extension}", lines 82-83
Numbered(path, counter) ==
  [path EXCEPT !.counters = Append(path.counters, counter)]

\* _get_unique_filename(output_path), lines 69-85
GetUniqueFilename_Requested(dir, output_path) ==
  IF ~PathExists(dir, output_path) THEN output_path
  ELSE output_path

GetUniqueFilename(dir, output_path) ==
  IF ~PathExists(dir, output_path) THEN output_path
  ELSE Numbered(output_path,
                CHOOSE n \in 1..(Cardinality(dir) + 1) :
                  /\ ~PathExists(dir, Numbered(output_path, n))
                  /\ \A k \in 1..(n - 1) : PathExists(dir, Numbered(output_path, k)))

\* export_image.save(output_path, ...), line 179: the file is opened for
\* writing, which replaces what was at the path, and written
Saved(dir, path, content) ==
  { f \in dir : f.name # path } \cup { [name |-> path, content |-> content] }

\* the output directory before the first export
InitSave ==
  /\ out_dir \in SUBSET { [name |-> [stem |-> "a", counters |-> << >>, suffix |-> ".png"], content |-> 0],
                          [name |-> [stem |-> "a", counters |-> <<1>>, suffix |-> ".png"], content |-> 0],
                          [name |-> [stem |-> "a", counters |-> << >>, suffix |-> ".jpg"], content |-> 0] }
  /\ xp_calls = 0
  /\ xp_last = [output_path |-> [stem |-> "a", counters |-> <<>>, suffix |-> ""],
                format_type |-> "none", returned |-> FALSE,
                saved_to |-> [stem |-> "a", counters |-> <<>>, suffix |-> ""],
                before |-> {}]
  /\ CoreIdle /\ AppIdleBut("save")

\* export_image(image, output_path, format_type), lines 104-186.  What
\* export_image.save does is given with the call: it writes the file
\* ("ok"), or it raises before ("refused") or after ("broken") it has
\* opened the file
ExportImage ==
  /\ xp_calls < MaxSaves
  /\ xp_calls' = xp_calls + 1
  /\ \E output_path \in OutputPaths, format_type \in FormatTypes,
        save \in {"ok", "refused", "broken"} :
       LET format == FormatLower(format_type)
           supported == format \in DOMAIN FormatExtension
           path == IF supported
                     THEN GetUniqueFilename(out_dir,
                            CorrectExtension(output_path, format))
                     ELSE output_path
           writes == supported /\ save # "refused"
       IN /\ out_dir' = IF writes THEN Saved(out_dir, path, xp_calls + 1)
                        ELSE out_dir
          /\ xp_last' = [output_path |-> output_path,
                         format_type |-> format_type,
                         returned |-> supported /\ save = "ok",
                         saved_to |-> path, before |-> out_dir]
  /\ UNCHANGED notSaveVars

NextSave == ExportImage

SpecSave == InitSave /\ [][NextSave]_vars

(***************************************************************************)
(*                  Properties of placement and compositing                *)
(***************************************************************************)

Positioned == rpc \in {"positioned", "applied"}

PresetAnchor == position_config.position \in Anchors

\* The column and the row of the nine-anchor grid an anchor lies in.
Column(a) ==
  CASE a \in {"top_left", "middle_left", "bottom_left"}       -> "start"
    [] a \in {"top_center", "center", "bottom_center"}        -> "centre"
    [] a \in {"top_right", "middle_right", "bottom_right"}    -> "end"

Row(a) ==
  CASE a \in {"top_left", "top_center", "top_right"}          -> "start"
    [] a \in {"middle_left", "center", "middle_right"}        -> "centre"
    [] a \in {"bottom_left", "bottom_center", "bottom_right"} -> "end"

\* q is the floor of d / 2.
IsFloorHalf(q, d) == 2 * q <= d /\ d < 2 * q + 2

\* The one formula per axis: v is the coordinate of a layer of extent
\* `layer` on a canvas of extent `canvas` for the given kind of anchor.
AxisFormula(v, kind, canvas, layer, margin) ==
  CASE kind = "start"  -> v = margin
    [] kind = "end"    -> v = canvas - layer - margin
    [] kind = "centre" -> IsFloorHalf(v, canvas - layer)

Even(n) == n % 2 = 0

AllEven ==
  /\ Even(image_size[1]) /\ Even(image_size[2])
  /\ Even(watermark_size[1]) /\ Even(watermark_size[2])

\* pos + layerSize/2 = canvasSize/2 on both axes (all sizes even).
Centred(pos) ==
  /\ pos[1] + (watermark_size[1] \div 2) = image_size[1] \div 2
  /\ pos[2] + (watermark_size[2] \div 2) = image_size[2] \div 2

\* C7 (as claimed): with the CUSTOM anchor the layer is composited at
\* exactly (custom_x, custom_y); nothing between the position computation
\* and the paste changes the coordinates.
C7_CustomPastedVerbatim ==
  (rpc = "applied" /\ position_config.position = "custom")
    => paste_at = <<position_config.custom_x, position_config.custom_y>>

C9_PositionFormula ==
  (Positioned /\ PresetAnchor)
    => /\ AxisFormula(position[1], Column(position_config.position),
                      image_size[1], watermark_size[1],
                      position_config.h_margin)
       /\ AxisFormula(position[2], Row(position_config.position),
                      image_size[2], watermark_size[2],
                      position_config.v_margin)
       /\ (/\ position_config.position = "bottom_right"
           /\ image_size = <<800, 600>> /\ watermark_size = <<120, 40>>
           /\ position_config.h_margin = 10 /\ position_config.v_margin = 10)
            => position = <<670, 550>>
       /\ (position_config.h_margin = position_config.v_margin)
            => /\ preset_positions # NoPositions
                    => preset_positions[position_config.position] = position
               /\ cli_position # NoPos => cli_position = position
       /\ preset_positions # NoPositions
            => \A a \in Anchors :
                 /\ AxisFormula(preset_positions[a][1], Column(a),
                                image_size[1], watermark_size[1],
                                position_config.h_margin)
                 /\ AxisFormula(preset_positions[a][2], Row(a),
                                image_size[2], watermark_size[2],
                                position_config.h_margin)

\* The documented scenario, computed by all three implementations.
C9_Witness ==
  /\ rpc = "applied"
  /\ position_config.position = "bottom_right"
  /\ image_size = <<800, 600>> /\ watermark_size = <<120, 40>>
  /\ position_config.h_margin = 10 /\ position_config.v_margin = 10
  /\ position = <<670, 550>>
  /\ preset_positions # NoPositions
  /\ cli_position = <<670, 550>>

\* C10: with anchor CENTER and even canvas and layer sizes, each of the
\* implementations gives position + layerSize/2 = canvasSize/2 on both
\* axes, also when the layer is larger than the canvas.
C10_CentreOfEvenSizes ==
  AllEven
    => /\ preset_positions # NoPositions => Centred(preset_positions["center"])
       /\ (position_config.position = "center" /\ cli_position # NoPos)
            => Centred(cli_position)
       /\ (position_config.position = "center" /\ Positioned)
            => Centred(position)

\* CENTER with even sizes and a layer larger than the canvas on both axes:
\* the position is negative.
C10_Witness ==
  /\ AllEven
  /\ position_config.position = "center"
  /\ watermark_size[1] > image_size[1] /\ watermark_size[2] > image_size[2]
  /\ preset_positions # NoPositions /\ preset_positions["center"][1] < 0
  /\ cli_position # NoPos /\ cli_position[2] < 0
  /\ rpc = "applied" /\ position = cli_position

(***************************************************************************)
(*                  Properties of the font catalog accessor                *)
(***************************************************************************)

\* C1 (as claimed): when several threads call get_font_mapper() for the
\* first time concurrently, _build_font_map runs at most once and every
\* caller is returned the same FontMapper instance with the same contents.
C1_CatalogBuiltOnce ==
  /\ builds <= 1
  /\ \A t \in Threads, u \in Threads :
       (tpc[t] = "done" /\ tpc[u] = "done") => tret[t] = tret[u]

(***************************************************************************)
(*                Properties of font resolution and loading                *)
(***************************************************************************)

Loaded == fpc = "loaded"

\* a fallback font of the platform that exists and can be loaded
UsableFallback(i) ==
  /\ i \in 1..Len(FallbackFonts(env))
  /\ NormPath(env, FallbackFonts(env)[i]) \in FontPaths(env) \ corrupt

\* the file or name _load_font hands to ImageFont.truetype loads
ResolvedPathLoads ==
  resolved_path # None /\ Truetype(env, corrupt, resolved_path) # NoFont

\* C2: _load_font returns a usable font and never raises, for every name
\* (None, unknown, alias, file path), every (bold, italic) and every catalog,
\* the empty one included: nothing to load or a name that the catalog does
\* not know leads to the next step (the name itself is tried), a font that
\* does not load leads to the fallback fonts of the platform in their order,
\* and when none of those exists and loads the built-in font is returned.
C2_LoadFontAlwaysReturnsFont ==
  Loaded =>
    /\ loaded_font # NoFont
    /\ loaded_font # DefaultFont =>
         NormPath(env, loaded_font.path) \in FontPaths(env) \ corrupt
    /\ (request.font_name = None \/ request.font_name = "") =>
         resolved_path = None
    /\ request.font_name \in FontNames =>
         (resolved_path = request.font_name \/ Exists(env, resolved_path))
    /\ ResolvedPathLoads =>
         loaded_font = Truetype(env, corrupt, resolved_path)
    /\ ~ResolvedPathLoads =>
         /\ \A i \in 1..Len(FallbackFonts(env)) :
              (UsableFallback(i) /\ \A j \in 1..(i - 1) : ~UsableFallback(j))
                => loaded_font.path = FallbackFonts(env)[i]
         /\ (\A i \in 1..Len(FallbackFonts(env)) : ~UsableFallback(i))
              => loaded_font = DefaultFont

\* C2 witness: the catalog resolves the name to a file that does not load,
\* the first fallback font of the platform is missing, and the call returns
\* the second one.
C2_Witness ==
  /\ fpc = "loaded"
  /\ request.font_name = "Arial"
  /\ resolved_path \in corrupt
  /\ loaded_font # DefaultFont
  /\ UsableFallback(2) /\ ~UsableFallback(1)
  /\ loaded_font.path = FallbackFonts(env)[2]

\* get_font_path has found a family that has a table of variants
FamilyResolved ==
  /\ fpc = "mapped"
  /\ resolved_family # None
  /\ Has(font_mapper.catalog.font_variants, resolved_family)

\* the variants discovered for the family found
Variants == Get(font_mapper.catalog.font_variants, resolved_family)

HasAsset(bold, italic) == Has(Variants, <<bold, italic>>)

Asset(bold, italic) == Get(Variants, <<bold, italic>>)

\* base_fonts.get(family_name)
BaseAsset == GetOrNone(font_mapper.catalog.base_fonts, resolved_family)

\* C3 (as claimed): once the family is resolved the asset returned is the
\* exact (bold, italic) variant, else a variant with the same bold flag and
\* the other italic flag, else a variant with the same italic flag and the
\* other bold flag, else the family's base asset.
C3_SameFlagVariantOrder ==
  FamilyResolved =>
    resolved_path =
      IF HasAsset(request.bold, request.italic)
        THEN Asset(request.bold, request.italic)
      ELSE IF HasAsset(request.bold, ~request.italic)
        THEN Asset(request.bold, ~request.italic)
      ELSE IF HasAsset(~request.bold, request.italic)
        THEN Asset(~request.bold, request.italic)
      ELSE BaseAsset

\* C3 (amended): for a family that _is_chinese_font does not recognise, the
\* asset returned is the exact (bold, italic) variant, else the variant with
\* the requested bold flag and no italic, else the variant with the
\* requested italic flag and no bold, else the regular variant, else the
\* family's base_fonts entry, None when it has none: a fallback drops a
\* requested style and never adds one that was not requested.
C3_DroppedStyleVariantOrder ==
  (FamilyResolved /\ ~IsChineseFont(resolved_family)) =>
    resolved_path =
      IF HasAsset(request.bold, request.italic)
        THEN Asset(request.bold, request.italic)
      ELSE IF HasAsset(request.bold, FALSE) THEN Asset(request.bold, FALSE)
      ELSE IF HasAsset(FALSE, request.italic) THEN Asset(FALSE, request.italic)
      ELSE IF HasAsset(FALSE, FALSE) THEN Asset(FALSE, FALSE)
      ELSE BaseAsset

\* C3 witness: bold Arial is asked for where Arial has a bold italic and a
\* regular file only, and the regular file is returned.
C3_Witness ==
  /\ FamilyResolved
  /\ request = [font_name |-> "Arial", bold |-> TRUE, italic |-> FALSE]
  /\ ~HasAsset(TRUE, FALSE) /\ HasAsset(TRUE, TRUE) /\ HasAsset(FALSE, FALSE)
  /\ resolved_path = Asset(FALSE, FALSE)
  /\ resolved_path # Asset(TRUE, TRUE)

\* get_font_path has found a family that _is_chinese_font recognises, for a
\* request with italic = True
ChineseItalicRequest ==
  /\ FamilyResolved
  /\ request.italic
  /\ IsChineseFont(resolved_family)

\* C5 (as claimed): for a family recognised by _is_chinese_font every
\* request with italic = True, bold or not, resolves to the family's base
\* (non-bold, non-italic) asset, whatever variants were discovered.
C5_ItalicResolvesToBase ==
  ChineseItalicRequest =>
    resolved_path \in {GetOrNone(Variants, <<FALSE, FALSE>>), BaseAsset}

\* C5 (amended): for a family recognised by _is_chinese_font a request with
\* italic = True resolves to the exact (bold, italic) variant when one was
\* discovered; otherwise to an asset that is not italic: for Microsoft YaHei
\* msyhbd.ttc of the Windows font directory when bold is asked for and the
\* file exists, else msyh.ttc when it exists; else the bold variant when
\* bold is asked for and the family has one; else the regular variant, None
\* when the family has none.
C5_ItalicResolvesToUprightAsset ==
  ChineseItalicRequest =>
    resolved_path =
      IF HasAsset(request.bold, TRUE) THEN Asset(request.bold, TRUE)
      ELSE IF /\ request.bold
              /\ Contains(resolved_family, "Microsoft YaHei")
                   \/ Contains(resolved_family, "1234")
              /\ (WindowsFontsDir \o "msyhbd.ttc") \in FontPaths(env)
        THEN WindowsFontsDir \o "msyhbd.ttc"
      ELSE IF /\ Contains(resolved_family, "Microsoft YaHei")
                   \/ Contains(resolved_family, "1234")
              /\ (WindowsFontsDir \o "msyh.ttc") \in FontPaths(env)
        THEN WindowsFontsDir \o "msyh.ttc"
      ELSE IF request.bold /\ HasAsset(TRUE, FALSE) THEN Asset(TRUE, FALSE)
      ELSE GetOrNone(Variants, <<FALSE, FALSE>>)

\* C5 witness: bold italic Microsoft YaHei is asked for where the family has
\* a regular and a bold file, and the bold file is returned.
C5_Witness ==
  /\ ChineseItalicRequest
  /\ request.bold
  /\ HasAsset(FALSE, FALSE) /\ HasAsset(TRUE, FALSE) /\ ~HasAsset(TRUE, TRUE)
  /\ resolved_path = WindowsFontsDir \o "msyhbd.ttc"
  /\ resolved_path # Asset(FALSE, FALSE)

(***************************************************************************)
(*                      Properties of the text layer                       *)
(***************************************************************************)

\* the (bold, italic) keys under which the catalog holds the loaded font's
\* file, in any family
AssetStyles ==
  UNION { { font_mapper.catalog.font_variants[f][2][k][1] :
              k \in { j \in 1..Len(font_mapper.catalog.font_variants[f][2]) :
                        font_mapper.catalog.font_variants[f][2][j][2]
                          = loaded_font.path } } :
          f \in 1..Len(font_mapper.catalog.font_variants) }

\* C4 (as claimed): the decision of _draw_text_with_effects is to simulate
\* bold, respectively italic, whenever that style is requested and the font
\* asset that was resolved and loaded is not a bold, respectively italic,
\* variant; so a request with italic = True for a family without an italic
\* asset is drawn with simulated italic.
C4_SimulatesMissingStyle ==
  (fpc = "drawn" /\ AssetStyles # {}) =>
    /\ (request.bold /\ \A style \in AssetStyles : ~style[1])
         => needs_simulated[1]
    /\ (request.italic /\ \A style \in AssetStyles : ~style[2])
         => needs_simulated[2]

\* a rectangle <<left, top, right, bottom>> lies on a layer of this size
Inside(ink, size) ==
  /\ 0 <= ink[1] /\ ink[3] <= size[1]
  /\ 0 <= ink[2] /\ ink[4] <= size[2]

\* C6 (as claimed): nothing drawn into the layer of create_text_watermark is
\* clipped by its boundary: the text and its shadow, stroke included, lie on
\* the layer, and when italic is simulated the layer is wider than the
\* unslanted text by at least the shear offset, the sheared image is
\* composited without being cropped and the rows it has the text on are
\* rows of the layer.
C6_NothingClipped ==
  fpc = "drawn" =>
    \A k \in 1..Len(drawn) :
      IF drawn[k].kind \in {"italic", "bold_italic"}
        THEN /\ text_layer.size[1]
                  >= drawn[k].text_size[1] + drawn[k].shear_offset
             /\ drawn[k].composited
             /\ ~drawn[k].cropped
             /\ drawn[k].paste[2] + drawn[k].ink_rows[2] <= text_layer.size[2]
        ELSE Inside(drawn[k].ink, text_layer.size)

(***************************************************************************)
(*                  Properties of images and compositing                   *)
(***************************************************************************)

\* C11: apply_watermark and render_watermark never modify the canvas image
\* they are given, nor (apply_watermark) the layer image: across a call both
\* objects keep their mode, size and pixels, and when the call succeeds the
\* image it returns is an object other than the ones it was given.
C11_InputsUntouched ==
  [][ipc = "given" =>
        /\ heap'[base_image] = heap[base_image]
        /\ heap'[watermark] = heap[watermark]
        /\ ipc' \in {"applied", "rendered"} =>
              /\ returned_image' \notin {base_image, watermark}
              /\ returned_image' \in DOMAIN heap']_vars

\* A half-opaque layer pasted off the origin of an RGBA canvas: the returned
\* image differs from the canvas given, which a paste in place would have
\* changed.
C11_Witness ==
  /\ ipc = "applied"
  /\ heap[base_image].mode = "RGBA"
  /\ apply_args.opacity = 50
  /\ apply_args.position = <<1, 0>>
  /\ returned_image # base_image
  /\ heap[returned_image].px # heap[base_image].px

\* the canvas rectangle apply_watermark's paste writes in the current call
Footprint ==
  PasteRegion(ClampPosition(apply_args.position, heap[base_image].size,
                            heap[watermark].size),
              heap[base_image].size, heap[watermark].size)

InFootprint(p) ==
  /\ Footprint[1] <= p[1] /\ p[1] < Footprint[3]
  /\ Footprint[2] <= p[2] /\ p[2] < Footprint[4]

\* C12 (as claimed): apply_watermark returns a canvas of the same size and
\* the same colour mode as the canvas given, for every mode, and only pixels
\* under the layer's footprint differ from the input.
C12_SameSizeAndMode ==
  ipc = "applied" =>
    /\ heap[returned_image].size = heap[base_image].size
    /\ heap[returned_image].mode = heap[base_image].mode
    /\ \A p \in Pixels(heap[base_image].size) :
         ~InFootprint(p) => heap[returned_image].px[p] = heap[base_image].px[p]

\* C12 (amended): the canvas apply_watermark returns has the size of the
\* canvas given and, when the paste succeeds, mode RGBA whatever the mode
\* given; outside the footprint of the layer at its clamped position every
\* pixel is the pixel of the given canvas converted to RGBA.  When the paste
\* fails the given canvas itself is returned.
C12_SameSizeModeRGBA ==
  /\ ipc = "applied" =>
       /\ heap[returned_image].size = heap[base_image].size
       /\ heap[returned_image].mode = "RGBA"
       /\ \A p \in Pixels(heap[base_image].size) :
            ~InFootprint(p) =>
              heap[returned_image].px[p] = ConvertedRGBA(heap[base_image]).px[p]
  /\ ipc = "failed" => returned_image = base_image

\* An RGB canvas, a layer that covers part of it only and changes a pixel.
C12_Witness ==
  /\ ipc = "applied"
  /\ heap[base_image].mode = "RGB"
  /\ \E p \in Pixels(heap[base_image].size) : ~InFootprint(p)
  /\ \E p \in Pixels(heap[base_image].size) :
       /\ InFootprint(p)
       /\ heap[returned_image].px[p] # ConvertedRGBA(heap[base_image]).px[p]

(***************************************************************************)
(*                    Properties of the FontMapper methods                 *)
(***************************************************************************)

\* C13: once a FontMapper has been constructed, no call of get_font_path,
\* _find_font_family, _handle_chinese_font_variant, _is_chinese_font or
\* get_available_fonts changes base_fonts, font_variants or font_map,
\* whatever the sequence of calls and their arguments.
C13_CallsLeaveCatalog ==
  [][font_mapper.id # 0 =>
       /\ font_mapper'.catalog.base_fonts = font_mapper.catalog.base_fonts
       /\ font_mapper'.catalog.font_variants = font_mapper.catalog.font_variants
       /\ font_mapper'.catalog.font_map = font_mapper.catalog.font_map]_vars

\* _find_font_family has resolved a name that is no key of font_map to a
\* family, and the catalog is the one that was built.
C13_Witness ==
  /\ call.fn = "_find_font_family"
  /\ call_result.value # None
  /\ ~Has(font_mapper.catalog.font_map, call.font_name)
  /\ font_mapper.catalog = BuildFontMap(env)

\* C14 (as claimed): every family of the catalog has a base asset: once the
\* catalog is built, every key of font_variants is also a key of base_fonts,
\* whatever font files were discovered.
C14_EveryFamilyHasBase ==
  font_mapper.id # 0 =>
    \A family \in KeySet(font_mapper.catalog.font_variants) :
      Has(font_mapper.catalog.base_fonts, family)

\* the call under way has parsed a name
Parsed == call.fn \in {"_parse_font_name", "_parse_filename"}

\* the parser of the call under way, applied to another spelling of the name
ParsedAgain(name) ==
  IF call.fn = "_parse_font_name" THEN ParseFontName(name)
                                  ELSE ParseFilename(name)

\* C15 (as claimed): in _parse_font_name and in _parse_filename, a name that
\* carries "Light" or "Thin" is never parsed as bold, and the style tokens
\* are recognised whatever their case: the flags parsed from a name are the
\* flags parsed from its lower-case spelling.
C15_WeightTokensNeverBold ==
  Parsed =>
    /\ (Contains(call.font_name, "Light") \/ Contains(call.font_name, "Thin"))
         => ~call_result.parsed[2]
    /\ call_result.parsed[2] = ParsedAgain(Lower(call.font_name))[2]
    /\ call_result.parsed[3] = ParsedAgain(Lower(call.font_name))[3]

\* the name given to _find_font_family is a key of base_fonts or of
\* font_variants
ExactFamily(cat, font_name) ==
  Has(cat.base_fonts, font_name) \/ Has(cat.font_variants, font_name)

\* C16 (as claimed): _find_font_family applies its steps in a fixed order: a
\* name that is exactly a family key of the catalog resolves to that same
\* family; only without an exact match is the alias table consulted; only
\* when the alias table gives nothing is substring containment used; a name
\* that matches nothing resolves to None.
C16_ExactThenAliasThenSubstring ==
  call.fn = "_find_font_family" =>
    IF ExactFamily(font_mapper.catalog, call.font_name)
      THEN call_result.value = call.font_name
    ELSE IF SpecialFamilies(font_mapper.catalog, call.font_name, 1) # None
      THEN call_result.value =
             SpecialFamilies(font_mapper.catalog, call.font_name, 1)
    ELSE call_result.value =
           FuzzyFamily(font_mapper.catalog, Lower(call.font_name))

\* the families with variants that _find_font_family takes for a name that
\* is a key of base_fonts only: the same family under another name, or a
\* family whose name contains the name or is contained in it
VariantFamiliesOf(cat, font_name) ==
  { family \in KeySet(cat.font_variants) :
      \/ HasNonAscii(font_name) /\ FontsAreSameFamily(font_name, family)
      \/ EitherContains(font_name, family) }

\* no key of the three dictionaries contains the name or is contained in it
NothingNear(cat, font_name) ==
  \A name \in KeySet(cat.font_variants) \cup KeySet(cat.base_fonts)
              \cup KeySet(cat.font_map) :
    ~EitherContains(font_name, name)

\* C16 (amended): _find_font_family applies its steps in a fixed order.  A
\* name that is a key of font_variants resolves to itself.  A name that is a
\* key of base_fonts only (an alias) resolves to a family of font_variants
\* that is the same family or contains or is contained in the name, when
\* there is one, and to itself otherwise.  Only a name that is no key of
\* either is looked up in the alias table; only when the alias table gives
\* nothing is substring containment used; a name that matches nothing
\* resolves to None.
C16_VariantKeyThenAliasThenSubstring ==
  call.fn = "_find_font_family" =>
    IF Has(font_mapper.catalog.font_variants, call.font_name)
      THEN call_result.value = call.font_name
    ELSE IF Has(font_mapper.catalog.base_fonts, call.font_name)
      THEN IF VariantFamiliesOf(font_mapper.catalog, call.font_name) = {}
             THEN call_result.value = call.font_name
             ELSE call_result.value \in
                    VariantFamiliesOf(font_mapper.catalog, call.font_name)
    ELSE IF SpecialFamilies(font_mapper.catalog, call.font_name, 1) # None
      THEN call_result.value =
             SpecialFamilies(font_mapper.catalog, call.font_name, 1)
    ELSE /\ call_result.value =
              FuzzyFamily(font_mapper.catalog, Lower(call.font_name))
         /\ NothingNear(font_mapper.catalog, call.font_name)
              => call_result.value = None

\* An alias key of base_fonts has resolved to the family with variants it
\* names, not to itself.
C16_Witness ==
  /\ call.fn = "_find_font_family"
  /\ Has(font_mapper.catalog.base_fonts, call.font_name)
  /\ ~Has(font_mapper.catalog.font_variants, call.font_name)
  /\ call_result.value # call.font_name
  /\ Has(font_mapper.catalog.font_variants, call_result.value)

\* C17: when the font argument of _load_font is the path of an existing font
\* file, the catalog is not consulted (get_font_path is not called, no
\* FontMapper is constructed by the call) and that file is the font loaded,
\* whatever the catalog contains and whatever the bold and italic flags; a
\* file that exists but cannot be read as a font is not a font file.
C17_ExistingPathLoadedDirectly ==
  [][(fpc = "idle" /\ fpc' = "loaded" /\ Exists(env, request'.font_name)) =>
       /\ font_mapper' = font_mapper
       /\ builds' = builds
       /\ resolved_path' = request'.font_name
       /\ NormPath(env, request'.font_name) \notin corrupt =>
            loaded_font' = [path |-> request'.font_name]]_vars

\* _load_font has loaded the file it was given, bold and italic asked for,
\* on a machine whose catalog is built and holds the family of the file.
C17_Witness ==
  /\ fpc = "loaded"
  /\ Exists(env, request.font_name)
  /\ request.bold /\ request.italic
  /\ loaded_font = [path |-> request.font_name]
  /\ font_mapper # NoMapper
  /\ GetFontPath(env, font_mapper.catalog, request.font_name, TRUE, TRUE)
       \notin {None, request.font_name}

\* the file names of the fonts _scan_font_directory records from the
\* directory
RecordedFiles(dir) ==
  { ScannedFiles(dir)[j] : j \in { k \in 1..Len(ScannedFiles(dir)) :
                                     IsFontFile(Lower(ScannedFiles(dir)[k])) } }

\* the machine has a font source that cannot be read: the registry key
\* cannot be opened, the font directories are missing, or a scan raises
SourceFails(e) ==
  \/ e.system = "Windows" /\ ~e.registry_ok
  \/ e.system # "Windows" /\ e.scan_dirs = <<>>
  \/ \E i \in 1..Len(e.scan_dirs) : ScanRaises(e.scan_dirs[i])

\* C18: a font source that is missing, unreadable or raises during the scan
\* is skipped and does not make the construction fail: FontMapper() returns
\* a mapper on every machine, whose catalog (empty at worst) has the fonts
\* of every directory scanned, those after a raising one included; and with
\* an empty catalog _load_font still returns a font: the file found for the
\* name itself if there is one, else the first platform fallback font that
\* exists and loads, else the built-in font.
C18_FailingSourceSkipped ==
  /\ (fpc \in {"mapped", "loaded"} /\ LooksUp(env, request.font_name)) =>
       /\ font_mapper.id # 0
       /\ env.system # "Windows" =>
            \A i \in 1..Len(env.scan_dirs) :
              \A file \in RecordedFiles(env.scan_dirs[i]) :
                Has(font_mapper.catalog.font_map, file)
  /\ (fpc = "loaded" /\ LooksUp(env, request.font_name)
      /\ font_mapper.catalog = EmptyCatalog) =>
       /\ loaded_font # NoFont
       /\ loaded_font = FontOr(Truetype(env, corrupt, request.font_name),
                               LoadFallbackFont(env, corrupt))

\* On a machine whose only font directory raised at once, the FontMapper
\* is constructed with an empty catalog and _load_font has loaded the
\* platform fallback font for a name nothing resolves.
C18_Witness ==
  /\ fpc = "loaded"
  /\ SourceFails(env)
  /\ env.scan_dirs # <<>>
  /\ ScanRaises(env.scan_dirs[1])
  /\ font_mapper.id # 0
  /\ font_mapper.catalog = EmptyCatalog
  /\ request.font_name = "Arial"
  /\ loaded_font = [path |-> "/usr/share/fonts/truetype/dejavu/DejaVuSans.ttf"]

(***************************************************************************)
(*                  Properties of drawing when a step raises               *)
(***************************************************************************)

\* the sheared image the call composites when no step raises
ShearedImage ==
  DrawSimulatedItalic(draw_call.layer.size, draw_call.layer.text_at,
                      draw_call.plain, 0, draw_call.needs[1])

\* a step of the shear raises: the transform, or the composite that follows
\* it inside the same try block
ShearFails ==
  \/ {"transform", "main_image"} \cap draw_call.fails # {}
  \/ "composite" \in draw_call.fails /\ ShearedImage.composited

\* the box of the text is empty: drawing it marks no pixel
EmptyBox ==
  draw_call.plain[3] = draw_call.plain[1]
    \/ draw_call.plain[4] = draw_call.plain[2]

\* the text has been drawn: by a draw.text, or by a sheared image composited
\* (of a text with an empty box nothing is composited)
TextDrawn ==
  \E i \in 1..Len(draw_result.ops) :
    \/ draw_result.ops[i].kind = "text"
    \/ draw_result.ops[i].composited
    \/ EmptyBox

\* the temporary image of the shear branches cannot be prepared
ShearSetupFails == {"textbbox", "new", "temp_text"} \cap draw_call.fails # {}

\* the last operation drawn is the text at the position given, plainly
DrawnPlainly ==
  /\ draw_result.ops # <<>>
  /\ draw_result.ops[Len(draw_result.ops)] =
       TextAt(draw_call.layer.text_at[1], draw_call.layer.text_at[2])

\* what the claim and its amendment share: when the shear fails the text is
\* drawn with the offset approximation, when the preparation of the shear
\* fails it is drawn plainly
FallsBackAsClaimed ==
  /\ (draw_call.needs[2] /\ ~ShearSetupFails /\ ShearFails
      /\ {"offset_text_1", "offset_text_2"} \cap draw_call.fails = {}) =>
       /\ ~draw_result.raised
       /\ Len(draw_result.ops) = IF draw_call.needs[1] THEN 2 ELSE 1
       /\ draw_result.ops[1] =
            TextAt(draw_call.layer.text_at[1] + ItalicOffset(draw_call.plain),
                   draw_call.layer.text_at[2])
  /\ (draw_call.needs[2] /\ ShearSetupFails
      /\ "plain_inner" \notin draw_call.fails) =>
       /\ ~draw_result.raised
       /\ DrawnPlainly

BufferAllocated ==
  /\ dpc \in {"drawn", "raised"}
  /\ draw_call.needs[2]
  /\ {"textbbox", "new"} \cap draw_call.fails = {}

\* C20: the temporary image allocated for simulated italic and bold italic
\* is at least as wide and at least as high as the box of the unslanted
\* text, for every width and height >= 0 of the box, the empty box
\* included: temp_width >= text_width and temp_height >= text_height.
C20_BufferCoversTextBox ==
  BufferAllocated =>
    /\ ShearedImage.text_size = <<draw_call.plain[3] - draw_call.plain[1],
                                  draw_call.plain[4] - draw_call.plain[2]>>
    /\ ShearedImage.text_size[1] >= 0 /\ ShearedImage.text_size[2] >= 0
    /\ ShearedImage.temp_size[1] >= ShearedImage.text_size[1]
    /\ ShearedImage.temp_size[2] >= ShearedImage.text_size[2]

\* Simulated italic of a text with an empty box: a temporary image of 10 by
\* 10 is allocated.
C20_Witness ==
  /\ BufferAllocated
  /\ draw_call.fails = {}
  /\ ~draw_call.needs[1]
  /\ ShearedImage.text_size = <<0, 0>>
  /\ ShearedImage.temp_size = <<10, 10>>

(***************************************************************************)
(*                         Properties of batch runs                        *)
(***************************************************************************)

\* the progress callback has raised
CallbackRaised ==
  /\ batch_call.raises_at > 0
  /\ Len(batch_run.callbacks) >= batch_call.raises_at

\* how many of the first n items are "ok"
Succeeded(items, n) == Cardinality({k \in 1..n : items[k] = "ok"})

Counts(s, n) == s = [k \in 1..n |-> k]

\* t begins with s
Prefix(s, t) ==
  /\ Len(s) <= Len(t)
  /\ \A k \in 1..Len(s) : t[k] = s[k]

\* the file of the iteration begun is neither left out nor left half done:
\* the files completed are those begun, but for the one under way
NeverHalfway ==
  /\ Counts(export_run.started, export_run.i)
  /\ Counts(export_run.completed,
            IF xpc \in {"update", "image"} THEN export_run.i - 1
                                           ELSE export_run.i)

\* once cancellation is asked for, no further file is begun, and what had
\* been exported stays exported
NothingBegunAfterRequest ==
  export_run.cancel_var =>
    /\ export_run.requested.asked
    /\ export_run.i = export_run.requested.i
    /\ Prefix(export_run.requested.exported, export_run.exported)

\* C22: cancellation acts between files only: once it is asked for, the
\* file of the iteration under way is completed, no further file is begun,
\* and the loop ends; what was exported before stays exported.
C22_CancelBetweenImages ==
  /\ [](xpc # "idle" => NeverHalfway /\ NothingBegunAfterRequest)
  /\ [][export_run.cancel_var => export_run'.cancel_var]_vars
  /\ (export_run.cancel_var ~> xpc = "done")

\* Cancel was clicked while the second of three files was being exported:
\* the second file is exported, the third is never begun.
C22_Witness ==
  /\ xpc = "done"
  /\ Len(export_call.items) = 3
  /\ export_run.cancel_var
  /\ export_run.requested.i = 2
  /\ Len(export_run.requested.exported) = 1
  /\ export_run.completed = <<1, 2>>
  /\ Len(export_run.exported) = 2

\* the items of the files completed so far whose layer could not be built
\* (create_text_watermark or load_image_watermark gave None, or a step of
\* _apply_watermark_to_image raised)
LayerFailed(k) ==
  /\ export_call.items[k].load
  /\ export_call.items[k].watermark # "layer"

\* C25 (as claimed): a render call whose layer cannot be built is rejected
\* for that call only: it yields no image that is exported or counted as a
\* successfully watermarked result, and the later calls are not affected.
C25_FailedLayerIsRejected ==
  xpc # "idle" =>
    /\ \A k \in 1..Len(export_run.exported) :
         /\ export_run.exported[k].watermarked
         /\ ~LayerFailed(export_run.exported[k].index)
    /\ export_run.success_count =
         Cardinality({k \in 1..Len(export_run.completed) :
                        /\ export_call.items[k].load
                        /\ export_call.items[k].watermark = "layer"
                        /\ export_call.items[k].export = "True"})

(***************************************************************************)
(*                  Properties of a render call with a rotation            *)
(***************************************************************************)

\* the rotation was applied: the angle is not 0 and Image.rotate returned
Rotated == rot_call.rotation # 0 /\ ~rot_call.raises

C24_ShadowStrokeFill ==
  ppc = "painted" =>
    /\ passes # << >>
    /\ passes[Len(passes)].layer = "text"
    /\ passes[Len(passes)].pass = "fill"
    /\ (\E k \in 1..Len(passes) : passes[k].layer = "shadow")
         <=> paint_call.shadow
    /\ \A j, k \in 1..Len(passes) :
         /\ (passes[j].layer = "shadow" /\ passes[k].layer = "text") => j < k
         /\ (/\ passes[j].layer = "text" /\ passes[k].layer = "text"
             /\ passes[j].pass = "fill" /\ passes[k].pass # "fill") => k < j
    /\ \A k \in 1..Len(passes) :
         passes[k].base =
           IF passes[k].layer = "shadow"
             THEN <<paint_call.xy[1] + paint_call.shadow_offset[1],
                    paint_call.xy[2] + paint_call.shadow_offset[2]>>
             ELSE paint_call.xy

(***************************************************************************)
(*              Properties of the construction of a config                 *)
(***************************************************************************)

\* C26: a WatermarkConfig is made exactly when font_size > 0, 0 <= opacity
\* <= 255 and margin >= 0, and then holds the values given; with a value
\* outside its range the construction raises ValueError with the message of
\* a field that is outside its range, and no config is made.
C26_OnlyValidConfigs ==
  cpc = "done" =>
    LET valid == /\ cfg_call.font_size > 0
                 /\ 0 <= cfg_call.opacity /\ cfg_call.opacity <= 255
                 /\ cfg_call.margin >= 0
    IN /\ cfg_result.made <=> valid
       /\ cfg_result.made => cfg_result.config = cfg_call
                             /\ cfg_result.raised = ""
       /\ ~valid =>
            /\ cfg_result.raised \in {"Font size must be positive",
                                      "Opacity must be between 0 and 255",
                                      "Margin must be non-negative"}
            /\ cfg_result.raised = "Font size must be positive"
                 => cfg_call.font_size <= 0
            /\ cfg_result.raised = "Opacity must be between 0 and 255"
                 => cfg_call.opacity < 0 \/ cfg_call.opacity > 255
            /\ cfg_result.raised = "Margin must be non-negative"
                 => cfg_call.margin < 0

\* a font size of 0 was refused, with the message of the font size
C26_Witness ==
  /\ cpc = "done"
  /\ cfg_call.font_size = 0
  /\ cfg_call.opacity = 255
  /\ cfg_call.margin = 0
  /\ ~cfg_result.made
  /\ cfg_result.raised = "Font size must be positive"

(***************************************************************************)
(*                Properties of the processing of one image                *)
(***************************************************************************)

\* some step of the call fails: the image cannot be loaded, it has no EXIF
\* date, or a step that is reached raises
StepFails(c) ==
  \/ c.load # "ok"
  \/ c.date # "date"
  \/ c.render # "ok"
  \/ c.save # "ok"

\* C27 (as claimed): process_single_image never raises; it returns False and
\* writes no output file whenever the input has no EXIF date, cannot be
\* loaded, or a step raises; it returns True only after the watermarked
\* image has been saved to the output path.
C27_FalseWritesNothing ==
  spc = "done" =>
    /\ single_run.returned \in {"True", "False"}
    /\ StepFails(single_call) =>
         /\ single_run.returned = "False"
         /\ single_run.out = OutBefore(single_call)
    /\ single_run.returned = "True" =>
         /\ ~StepFails(single_call)
         /\ single_run.out = "watermarked"

(***************************************************************************)
(*                 Properties of the list of the FileManager               *)
(***************************************************************************)

\* the absolute paths listed
ListedPaths(files) == { files[i].path : i \in 1..Len(files) }

\* C28: no two entries of image_files have the same absolute path; an add of
\* a missing file, of an unsupported file or of a file that is listed, a
\* remove of a path that is not listed and a remove by an index out of range
\* return False and leave the list as it was.
C28_NoFileListedTwice ==
  /\ \A i, j \in 1..Len(image_files) :
       image_files[i].path = image_files[j].path => i = j
  /\ \A i \in 1..Len(image_files) : image_files[i].path.form = "abs"
  /\ fm_last.op = "add_single_file" =>
       LET file_path == fm_last.arg[1]
           rejected == \/ file_path.kind # "image"
                       \/ Abspath(file_path) \in ListedPaths(fm_last.before)
       IN /\ fm_last.returned = "False" <=> rejected
          /\ rejected => image_files = fm_last.before
          /\ ~rejected =>
               image_files = Append(fm_last.before,
                                    [path |-> Abspath(file_path)])
  /\ fm_last.op = "remove_file" =>
       LET unknown == Abspath(fm_last.arg[1]) \notin ListedPaths(fm_last.before)
       IN /\ fm_last.returned = "False" <=> unknown
          /\ unknown => image_files = fm_last.before
  /\ fm_last.op = "remove_file_by_index" =>
       LET outside == fm_last.index < 0 \/ fm_last.index >= Len(fm_last.before)
       IN /\ fm_last.returned = "False" <=> outside
          /\ outside => image_files = fm_last.before
  /\ fm_last.op \in {"add_multiple_files", "add_folder"} =>
       /\ Len(image_files) = Len(fm_last.before) + fm_last.count
       /\ SubSeq(image_files, 1, Len(fm_last.before)) = fm_last.before

\* a file that is listed under its absolute path was given again as a
\* relative path, and refused
C28_Witness ==
  /\ fm_last.op = "add_single_file"
  /\ fm_last.arg[1].form = "rel"
  /\ fm_last.arg[1].kind = "image"
  /\ fm_last.returned = "False"
  /\ Len(image_files) = 2
  /\ image_files = fm_last.before

(***************************************************************************)
(*            Properties of the current image of the main window           *)
(***************************************************************************)

\* C29: current_image_index is -1 or an index of the file list;
\* current_image is None exactly when the index is -1, and otherwise the
\* index designates the file the image was loaded from; removing an image
\* before the current one lowers the index by one, so that it designates
\* the same file, and removing the current one sets the index to -1.
C29_IndexDesignatesCurrent ==
  /\ \/ current_image_index = 0 - 1
     \/ 0 <= current_image_index /\ current_image_index < Len(shown_files)
  /\ current_image = NoCurrentImage <=> current_image_index = 0 - 1
  /\ current_image_index >= 0 =>
       shown_files[current_image_index + 1] = current_image
  /\ (mw_last.op = "remove" /\ mw_last.removed) =>
       /\ (mw_last.before_index >= 0 /\ mw_last.index < mw_last.before_index) =>
            /\ current_image_index = mw_last.before_index - 1
            /\ shown_files[current_image_index + 1]
                 = mw_last.before_files[mw_last.before_index + 1]
       /\ mw_last.index = mw_last.before_index =>
            current_image_index = 0 - 1
       /\ mw_last.index > mw_last.before_index =>
            current_image_index = mw_last.before_index

\* the first image of three was removed while the third was the current one
C29_Witness ==
  /\ mw_last.op = "remove"
  /\ mw_last.removed
  /\ mw_last.index = 0
  /\ mw_last.before_index = 2
  /\ current_image_index = 1
  /\ current_image # NoCurrentImage

(***************************************************************************)
(*              Properties of the files written by export_image            *)
(***************************************************************************)

\* the format asked for is one of SUPPORTED_FORMATS, whatever its case
Supported(format_type) ==
  format_type \in {"png", "PNG", "jpeg", "JPEG", "jpg", "bmp", "tiff", "tif"}

\* the path asked for, with the extension of the format (an extension that
\* differs from it in case only is kept)
Asked(last) ==
  LET suffix == last.output_path.suffix
      ext == CASE last.format_type \in {"png", "PNG"} -> ".png"
               [] last.format_type \in {"jpeg", "JPEG", "jpg"} -> ".jpg"
               [] OTHER -> suffix
      has_it == \/ suffix = ext
                \/ ext = ".jpg" /\ suffix = ".JPG"
                \/ ext = ".png" /\ suffix = ".PNG"
  IN IF has_it THEN last.output_path
     ELSE [last.output_path EXCEPT !.suffix = ext]

\* C30: export_image never overwrites a file that exists: every file that
\* was there before a call is there after it with its content; a call that
\* returns True has written the path asked for (with the extension of the
\* format) if it was free, and otherwise the first free "stem (n).ext"; the
\* calls that return True have written as many files as there were such
\* calls; an unsupported format returns False and writes nothing.
C30_NeverOverwrites ==
  /\ xp_last.before \subseteq out_dir
  /\ \A f, g \in out_dir : f.name = g.name => f = g
  /\ (xp_calls > 0 /\ ~Supported(xp_last.format_type)) =>
       ~xp_last.returned /\ out_dir = xp_last.before
  /\ xp_last.returned =>
       /\ out_dir = xp_last.before
                      \cup { [name |-> xp_last.saved_to, content |-> xp_calls] }
       /\ ~PathExists(xp_last.before, xp_last.saved_to)
       /\ IF ~PathExists(xp_last.before, Asked(xp_last))
            THEN xp_last.saved_to = Asked(xp_last)
            ELSE \E n \in 1..(Cardinality(xp_last.before) + 1) :
                   /\ xp_last.saved_to = Numbered(Asked(xp_last), n)
                   /\ \A k \in 1..(n - 1) :
                        PathExists(xp_last.before, Numbered(Asked(xp_last), k))

\* "a.png" was exported twice into a directory that had "a.png" and
\* "a (1).png": the directory has four files
C30_Witness ==
  /\ xp_calls = 2
  /\ xp_last.returned
  /\ xp_last.saved_to = [stem |-> "a", counters |-> <<3>>, suffix |-> ".png"]
  /\ Cardinality(out_dir) = 4
  /\ \E f \in out_dir : f.content = 1 /\ f.name = [stem |-> "a", counters |-> <<2>>, suffix |-> ".png"]

====
